---- MODULE Spec2Model ----
(***************************************************************************)
(* documentextractor: the document processing pipeline                     *)
(* (src/src/processor.py), the template registry (src/src/templates), the  *)
(* OCR and LLM fallback pipelines (src/src/extraction) and the loader      *)
(* (src/src/ingestion/loader.py).                                          *)
(*                                                                         *)
(* Conventions of the model                                                *)
(*  - a Python str is a sequence of one-character strings, so that lower,  *)
(*    strip, title, replace and the "in" substring test are computed as    *)
(*    Python computes them; a non-ASCII character is written "U+XXXX";     *)
(*  - a JSON value is a record [t, s]: t is "null", "str" or "num" and s   *)
(*    is the str or, for a number, what Python's str() prints for it;      *)
(*  - a confidence is a number of tenths (9 is 0.9); a mean or a product   *)
(*    of confidences is an exact fraction [num, den] with den > 0;         *)
(*  - a dict is a function from a finite set of keys.                      *)
(***************************************************************************)
EXTENDS Integers, Sequences, FiniteSets, TLC

----------------------------------------------------------------------------
(* Python str operations                                                   *)

LowerOf ==
  [ A |-> "a", B |-> "b", C |-> "c", D |-> "d", E |-> "e", F |-> "f", G |-> "g",
    H |-> "h", I |-> "i", J |-> "j", K |-> "k", L |-> "l", M |-> "m", N |-> "n",
    O |-> "o", P |-> "p", Q |-> "q", R |-> "r", S |-> "s", T |-> "t", U |-> "u",
    V |-> "v", W |-> "w", X |-> "x", Y |-> "y", Z |-> "z" ]

UpperOf ==
  [ a |-> "A", b |-> "B", c |-> "C", d |-> "D", e |-> "E", f |-> "F", g |-> "G",
    h |-> "H", i |-> "I", j |-> "J", k |-> "K", l |-> "L", m |-> "M", n |-> "N",
    o |-> "O", p |-> "P", q |-> "Q", r |-> "R", s |-> "S", t |-> "T", u |-> "U",
    v |-> "V", w |-> "W", x |-> "X", y |-> "Y", z |-> "Z" ]

Digits == {"0", "1", "2", "3", "4", "5", "6", "7", "8", "9"}

Whitespace == {" ", "\n", "\t"}

IsCased(ch) == ch \in DOMAIN LowerOf \/ ch \in DOMAIN UpperOf

LowerChar(ch) == IF ch \in DOMAIN LowerOf THEN LowerOf[ch] ELSE ch

UpperChar(ch) == IF ch \in DOMAIN UpperOf THEN UpperOf[ch] ELSE ch

\* str.lower()
py_lower(str) == [i \in 1..Len(str) |-> LowerChar(str[i])]

\* str.upper()
py_upper(str) == [i \in 1..Len(str) |-> UpperChar(str[i])]

\* str.title(): a cased character is upper-cased when it follows an uncased
\* one (or starts the string) and lower-cased otherwise.
py_title(str) ==
  [i \in 1..Len(str) |->
     IF i = 1 \/ ~IsCased(str[i - 1]) THEN UpperChar(str[i]) ELSE LowerChar(str[i])]

\* str.strip(): drops leading and trailing whitespace.
py_strip(str) ==
  LET keep == {i \in 1..Len(str) : str[i] \notin Whitespace}
  IN  IF keep = {} THEN <<>>
      ELSE LET lo == CHOOSE i \in keep : \A j \in keep : i <= j
               hi == CHOOSE i \in keep : \A j \in keep : i >= j
           IN  SubSeq(str, lo, hi)

\* str.replace(ch, ""): drops every occurrence of one character.
py_remove(str, ch) == SelectSeq(str, LAMBDA x : x # ch)

\* str.isdigit(): non-empty and digits only.
py_isdigit(str) == str # <<>> /\ \A i \in 1..Len(str) : str[i] \in Digits

\* sub in str
py_in(sub, str) ==
  \E i \in 0..(Len(str) - Len(sub)) : \A j \in 1..Len(sub) : str[i + j] = sub[j]

\* str.startswith(prefix)
py_startswith(str, prefix) ==
  Len(prefix) <= Len(str) /\ \A j \in 1..Len(prefix) : str[j] = prefix[j]

\* sep.join(parts)
RECURSIVE py_join(_, _)
py_join(sep, parts) ==
  IF parts = <<>> THEN <<>>
  ELSE IF Len(parts) = 1 THEN parts[1]
  ELSE parts[1] \o sep \o py_join(sep, Tail(parts))

----------------------------------------------------------------------------
(* JSON values as the LLM returns them and Python handles them             *)

Null == [t |-> "null", s |-> <<>>]

Str(str) == [t |-> "str", s |-> str]

\* A number, carried as the text str() prints for it ("7", "3.5").
Num(repr) == [t |-> "num", s |-> repr]

\* bool(value): None, "" and 0 are falsy.
Truthy(v) ==
  CASE v.t = "null" -> FALSE
    [] v.t = "str"  -> v.s # <<>>
    [] OTHER        -> \E i \in 1..Len(v.s) : v.s[i] \in Digits \ {"0"}

\* str(value)
PyStr(v) == IF v.t = "null" THEN <<"N", "o", "n", "e">> ELSE v.s

\* A message (of an exception, a validation error, an ExtractionError): a
\* format, the strings that fill its {} and, for a confidence printed with
\* {:.2f}, the fraction printed.
Message(fmt, args) == [fmt |-> fmt, args |-> args, num |-> 0, den |-> 1]

NoExc == Message("", << >>)

\* The message of the AttributeError raised by value.strip() on a number.
AttributeErrorOf(v) ==
  IF "." \in {v.s[i] : i \in 1..Len(v.s)}
  THEN Message("'float' object has no attribute 'strip'", << >>)
  ELSE Message("'int' object has no attribute 'strip'", << >>)

\* Length of the run of digits of str that starts at position i.
RECURSIVE DigitRun(_, _)
DigitRun(str, i) ==
  IF i <= Len(str) /\ str[i] \in Digits THEN 1 + DigitRun(str, i + 1) ELSE 0

\* re.search(r'(\d+\.?\d*)', str): the leftmost run of digits, an optional
\* dot and the digits after it.
re_search_number(str) ==
  LET starts == {i \in 1..Len(str) : str[i] \in Digits}
  IN  IF starts = {} THEN [found |-> FALSE, int |-> <<>>, frac |-> <<>>]
      ELSE LET i == CHOOSE x \in starts : \A y \in starts : x <= y
               a == DigitRun(str, i)
               dot == i + a <= Len(str) /\ str[i + a] = "."
               b == IF dot THEN DigitRun(str, i + a + 1) ELSE 0
           IN  [found |-> TRUE,
                int |-> SubSeq(str, i, i + a - 1),
                frac |-> SubSeq(str, i + a + 1, i + a + b)]

RECURSIVE StripLeadingZeros(_)
StripLeadingZeros(ds) ==
  IF Len(ds) > 1 /\ ds[1] = "0" THEN StripLeadingZeros(Tail(ds)) ELSE ds

RECURSIVE StripTrailingZeros(_)
StripTrailingZeros(ds) ==
  IF Len(ds) > 1 /\ ds[Len(ds)] = "0"
  THEN StripTrailingZeros(SubSeq(ds, 1, Len(ds) - 1))
  ELSE ds

\* str(float(int "." frac)) for the digit strings of a decimal literal below
\* 1e16: no leading zeros, at least one digit after the dot.
py_float_repr(int, frac) ==
  StripLeadingZeros(IF int = <<>> THEN <<"0">> ELSE int) \o <<".">> \o
  StripTrailingZeros(IF frac = <<>> THEN <<"0">> ELSE frac)

\* float(str) succeeds: surrounding whitespace, an optional sign, digits with
\* at most one dot and at least one digit.  (Exponents, "inf", "nan" and
\* underscores, which float() also accepts, are not in the values drawn.)
py_float_ok(str) ==
  LET t0 == py_strip(str)
      t1 == IF t0 # <<>> /\ t0[1] \in {"+", "-"} THEN Tail(t0) ELSE t0
  IN  /\ \A i \in 1..Len(t1) : t1[i] \in Digits \cup {"."}
      /\ Cardinality({i \in 1..Len(t1) : t1[i] = "."}) <= 1
      /\ \E i \in 1..Len(t1) : t1[i] \in Digits

(* dict helpers *)
Has(d, k) == k \in DOMAIN d

\* d.get(k): None when the key is absent
Get(d, k) == IF k \in DOMAIN d THEN d[k] ELSE Null

\* d.get(k, default)
GetOr(d, k, default) == IF k \in DOMAIN d THEN d[k] ELSE default

\* d[k] = v
Put(d, k, v) == [x \in (DOMAIN d) \cup {k} |-> IF x = k THEN v ELSE d[x]]

EmptyDict == [x \in {} |-> Null]

----------------------------------------------------------------------------
(* The templates: field schemas and classification keywords                *)

\* UANCardTemplate: Template for UAN Card / Shram Card (EPFO). (src/src/templates/indian_ids.py)
UANCardTemplate ==
  [ name |-> "UANCardTemplate",
    category |-> "id_document",
    field_definitions |-> <<
      [name |-> "member_name", display_name |-> "Member Name", field_type |-> "string", required |-> TRUE],
      [name |-> "uan_number", display_name |-> "UAN Number", field_type |-> "string", required |-> TRUE],
      [name |-> "date_of_birth", display_name |-> "Date of Birth", field_type |-> "date", required |-> TRUE],
      [name |-> "gender", display_name |-> "Gender", field_type |-> "string", required |-> FALSE],
      [name |-> "fathers_name", display_name |-> "Father's/Husband's Name", field_type |-> "string", required |-> FALSE],
      [name |-> "aadhaar_verified", display_name |-> "Aadhaar Verified", field_type |-> "string", required |-> FALSE],
      [name |-> "pan_verified", display_name |-> "PAN Verified", field_type |-> "string", required |-> FALSE],
      [name |-> "bank_verified", display_name |-> "Bank Verified", field_type |-> "string", required |-> FALSE],
      [name |-> "employer_name", display_name |-> "Employer Name", field_type |-> "string", required |-> FALSE],
      [name |-> "establishment_id", display_name |-> "Establishment ID", field_type |-> "string", required |-> FALSE],
      [name |-> "address", display_name |-> "Address", field_type |-> "string", required |-> FALSE] >>,
    classification_keywords |-> <<
      <<"u","a","n">>,
      <<"u","n","i","v","e","r","s","a","l"," ","a","c","c","o","u","n","t"," ","n","u","m","b","e","r">>,
      <<"e","p","f","o">>,
      <<"e","p","f">>,
      <<"p","r","o","v","i","d","e","n","t"," ","f","u","n","d">>,
      <<"s","h","r","a","m">>,
      <<"e","-","s","h","r","a","m">>,
      <<"m","i","n","i","s","t","r","y"," ","o","f"," ","l","a","b","o","u","r">>,
      <<"U+0936","U+094D","U+0930","U+092E"," ","U+0915","U+093E","U+0930","U+094D","U+0921">>,
      <<"m","e","m","b","e","r"," ","i","d">>,
      <<"u","n","o","r","g","a","n","i","s","e","d"," ","w","o","r","k","e","r">> >> ]

\* AadhaarCardTemplate: Template for Aadhaar Card (UIDAI). (src/src/templates/indian_ids.py)
AadhaarCardTemplate ==
  [ name |-> "AadhaarCardTemplate",
    category |-> "id_document",
    field_definitions |-> <<
      [name |-> "full_name", display_name |-> "Full Name", field_type |-> "string", required |-> TRUE],
      [name |-> "aadhaar_number", display_name |-> "Aadhaar Number", field_type |-> "string", required |-> TRUE],
      [name |-> "date_of_birth", display_name |-> "Date of Birth", field_type |-> "date", required |-> TRUE],
      [name |-> "gender", display_name |-> "Gender", field_type |-> "string", required |-> FALSE],
      [name |-> "address", display_name |-> "Address", field_type |-> "string", required |-> FALSE],
      [name |-> "pincode", display_name |-> "PIN Code", field_type |-> "string", required |-> FALSE],
      [name |-> "vid", display_name |-> "Virtual ID (VID)", field_type |-> "string", required |-> FALSE] >>,
    classification_keywords |-> <<
      <<"a","a","d","h","a","a","r">>,
      <<"u","i","d","a","i">>,
      <<"u","n","i","q","u","e"," ","i","d","e","n","t","i","f","i","c","a","t","i","o","n">>,
      <<"U+092D","U+093E","U+0930","U+0924"," ","U+0938","U+0930","U+0915","U+093E","U+0930">>,
      <<"g","o","v","e","r","n","m","e","n","t"," ","o","f"," ","i","n","d","i","a">>,
      <<"e","n","r","o","l","m","e","n","t">>,
      <<"v","i","d">>,
      <<"U+0906","U+0927","U+093E","U+0930">> >> ]

\* PANCardTemplate: Template for PAN Card (Income Tax). (src/src/templates/indian_ids.py)
PANCardTemplate ==
  [ name |-> "PANCardTemplate",
    category |-> "id_document",
    field_definitions |-> <<
      [name |-> "full_name", display_name |-> "Full Name", field_type |-> "string", required |-> TRUE],
      [name |-> "pan_number", display_name |-> "PAN Number", field_type |-> "string", required |-> TRUE],
      [name |-> "fathers_name", display_name |-> "Father's Name", field_type |-> "string", required |-> FALSE],
      [name |-> "date_of_birth", display_name |-> "Date of Birth", field_type |-> "date", required |-> TRUE],
      [name |-> "signature_name", display_name |-> "Name on Signature", field_type |-> "string", required |-> FALSE] >>,
    classification_keywords |-> <<
      <<"p","e","r","m","a","n","e","n","t"," ","a","c","c","o","u","n","t"," ","n","u","m","b","e","r">>,
      <<"p","a","n">>,
      <<"i","n","c","o","m","e"," ","t","a","x">>,
      <<"U+0906","U+092F","U+0915","U+0930"," ","U+0935","U+093F","U+092D","U+093E","U+0917">>,
      <<"g","o","v","t","."," ","o","f"," ","i","n","d","i","a">>,
      <<"N","S","D","L">>,
      <<"U","T","I">> >> ]

\* VoterIDTemplate: Template for Voter ID Card (EPIC). (src/src/templates/indian_ids.py)
VoterIDTemplate ==
  [ name |-> "VoterIDTemplate",
    category |-> "id_document",
    field_definitions |-> <<
      [name |-> "elector_name", display_name |-> "Elector's Name", field_type |-> "string", required |-> TRUE],
      [name |-> "epic_number", display_name |-> "EPIC Number", field_type |-> "string", required |-> TRUE],
      [name |-> "fathers_name", display_name |-> "Father's/Husband's Name", field_type |-> "string", required |-> FALSE],
      [name |-> "date_of_birth", display_name |-> "Date of Birth", field_type |-> "date", required |-> FALSE],
      [name |-> "age", display_name |-> "Age", field_type |-> "number", required |-> FALSE],
      [name |-> "gender", display_name |-> "Gender", field_type |-> "string", required |-> FALSE],
      [name |-> "address", display_name |-> "Address", field_type |-> "string", required |-> FALSE],
      [name |-> "polling_station", display_name |-> "Polling Station", field_type |-> "string", required |-> FALSE],
      [name |-> "constituency", display_name |-> "Assembly Constituency", field_type |-> "string", required |-> FALSE] >>,
    classification_keywords |-> <<
      <<"v","o","t","e","r">>,
      <<"e","p","i","c">>,
      <<"e","l","e","c","t","i","o","n"," ","c","o","m","m","i","s","s","i","o","n">>,
      <<"e","l","e","c","t","o","r">>,
      <<"p","o","l","l","i","n","g">>,
      <<"U+0928","U+093F","U+0930","U+094D","U+0935","U+093E","U+091A","U+0928">>,
      <<"U+092E","U+0924","U+0926","U+093E","U+0924","U+093E">>,
      <<"a","s","s","e","m","b","l","y"," ","c","o","n","s","t","i","t","u","e","n","c","y">> >> ]

\* DrivingLicenseTemplate: Template for Indian Driving License. (src/src/templates/indian_ids.py)
DrivingLicenseTemplate ==
  [ name |-> "DrivingLicenseTemplate",
    category |-> "id_document",
    field_definitions |-> <<
      [name |-> "holder_name", display_name |-> "Name of Holder", field_type |-> "string", required |-> TRUE],
      [name |-> "license_number", display_name |-> "License Number", field_type |-> "string", required |-> TRUE],
      [name |-> "date_of_birth", display_name |-> "Date of Birth", field_type |-> "date", required |-> TRUE],
      [name |-> "blood_group", display_name |-> "Blood Group", field_type |-> "string", required |-> FALSE],
      [name |-> "fathers_name", display_name |-> "Father's/Husband's Name", field_type |-> "string", required |-> FALSE],
      [name |-> "address", display_name |-> "Address", field_type |-> "string", required |-> FALSE],
      [name |-> "issue_date", display_name |-> "Date of Issue", field_type |-> "date", required |-> FALSE],
      [name |-> "valid_till", display_name |-> "Valid Till", field_type |-> "date", required |-> FALSE],
      [name |-> "vehicle_classes", display_name |-> "Vehicle Class(es)", field_type |-> "string", required |-> FALSE],
      [name |-> "issuing_authority", display_name |-> "Issuing Authority (RTO)", field_type |-> "string", required |-> FALSE] >>,
    classification_keywords |-> <<
      <<"d","r","i","v","i","n","g">>,
      <<"l","i","c","e","n","s","e">>,
      <<"l","i","c","e","n","c","e">>,
      <<"m","o","t","o","r"," ","v","e","h","i","c","l","e">>,
      <<"r","t","o">>,
      <<"t","r","a","n","s","p","o","r","t">>,
      <<"l","m","v">>,
      <<"m","c","w","g">>,
      <<"v","a","l","i","d"," ","t","i","l","l">>,
      <<"b","l","o","o","d"," ","g","r","o","u","p">> >> ]

\* TranscriptTemplate: Template for academic transcripts. (src/src/templates/transcript.py)
TranscriptTemplate ==
  [ name |-> "TranscriptTemplate",
    category |-> "transcript",
    field_definitions |-> <<
      [name |-> "student_name", display_name |-> "Student Name", field_type |-> "string", required |-> TRUE],
      [name |-> "student_id", display_name |-> "Student ID", field_type |-> "string", required |-> FALSE],
      [name |-> "institution_name", display_name |-> "Institution Name", field_type |-> "string", required |-> TRUE],
      [name |-> "date_of_birth", display_name |-> "Date of Birth", field_type |-> "date", required |-> FALSE],
      [name |-> "graduation_date", display_name |-> "Graduation Date", field_type |-> "date", required |-> FALSE],
      [name |-> "gpa", display_name |-> "GPA", field_type |-> "number", required |-> FALSE],
      [name |-> "gpa_scale", display_name |-> "GPA Scale", field_type |-> "string", required |-> FALSE],
      [name |-> "class_rank", display_name |-> "Class Rank", field_type |-> "string", required |-> FALSE],
      [name |-> "total_credits", display_name |-> "Total Credits", field_type |-> "number", required |-> FALSE],
      [name |-> "courses", display_name |-> "Courses", field_type |-> "array", required |-> FALSE],
      [name |-> "degree_type", display_name |-> "Degree Type", field_type |-> "string", required |-> FALSE] >>,
    classification_keywords |-> <<
      <<"t","r","a","n","s","c","r","i","p","t">>,
      <<"a","c","a","d","e","m","i","c"," ","r","e","c","o","r","d">>,
      <<"g","r","a","d","e"," ","p","o","i","n","t"," ","a","v","e","r","a","g","e">>,
      <<"g","p","a">>,
      <<"c","r","e","d","i","t","s">>,
      <<"c","o","u","r","s","e">>,
      <<"s","e","m","e","s","t","e","r">>,
      <<"c","u","m","u","l","a","t","i","v","e">>,
      <<"o","f","f","i","c","i","a","l"," ","t","r","a","n","s","c","r","i","p","t">>,
      <<"r","e","g","i","s","t","r","a","r">> >> ]

\* IDDocumentTemplate: Template for identity documents. (src/src/templates/id_document.py)
IDDocumentTemplate ==
  [ name |-> "IDDocumentTemplate",
    category |-> "id_document",
    field_definitions |-> <<
      [name |-> "full_name", display_name |-> "Full Name", field_type |-> "string", required |-> TRUE],
      [name |-> "first_name", display_name |-> "First Name", field_type |-> "string", required |-> FALSE],
      [name |-> "last_name", display_name |-> "Last Name", field_type |-> "string", required |-> FALSE],
      [name |-> "date_of_birth", display_name |-> "Date of Birth", field_type |-> "date", required |-> TRUE],
      [name |-> "document_number", display_name |-> "Document Number", field_type |-> "string", required |-> TRUE],
      [name |-> "document_type", display_name |-> "Document Type", field_type |-> "string", required |-> FALSE],
      [name |-> "issue_date", display_name |-> "Issue Date", field_type |-> "date", required |-> FALSE],
      [name |-> "expiry_date", display_name |-> "Expiry Date", field_type |-> "date", required |-> FALSE],
      [name |-> "nationality", display_name |-> "Nationality", field_type |-> "string", required |-> FALSE],
      [name |-> "gender", display_name |-> "Gender", field_type |-> "string", required |-> FALSE],
      [name |-> "address", display_name |-> "Address", field_type |-> "string", required |-> FALSE],
      [name |-> "place_of_birth", display_name |-> "Place of Birth", field_type |-> "string", required |-> FALSE],
      [name |-> "issuing_authority", display_name |-> "Issuing Authority", field_type |-> "string", required |-> FALSE] >>,
    classification_keywords |-> <<
      <<"p","a","s","s","p","o","r","t">>,
      <<"d","r","i","v","e","r">>,
      <<"l","i","c","e","n","s","e">>,
      <<"i","d","e","n","t","i","t","y">>,
      <<"i","d"," ","c","a","r","d">>,
      <<"n","a","t","i","o","n","a","l"," ","i","d">>,
      <<"d","a","t","e"," ","o","f"," ","b","i","r","t","h">>,
      <<"d","o","b">>,
      <<"e","x","p","i","r","y">>,
      <<"n","a","t","i","o","n","a","l","i","t","y">>,
      <<"p","l","a","c","e"," ","o","f"," ","i","s","s","u","e">> >> ]

\* CertificateTemplate: Template for certificates and awards. (src/src/templates/certificate.py)
CertificateTemplate ==
  [ name |-> "CertificateTemplate",
    category |-> "certificate",
    field_definitions |-> <<
      [name |-> "recipient_name", display_name |-> "Recipient Name", field_type |-> "string", required |-> TRUE],
      [name |-> "certificate_title", display_name |-> "Certificate Title", field_type |-> "string", required |-> TRUE],
      [name |-> "issuing_organization", display_name |-> "Issuing Organization", field_type |-> "string", required |-> TRUE],
      [name |-> "issue_date", display_name |-> "Issue Date", field_type |-> "date", required |-> FALSE],
      [name |-> "expiry_date", display_name |-> "Expiry Date", field_type |-> "date", required |-> FALSE],
      [name |-> "certificate_id", display_name |-> "Certificate ID", field_type |-> "string", required |-> FALSE],
      [name |-> "achievement_description", display_name |-> "Achievement Description", field_type |-> "string", required |-> FALSE],
      [name |-> "course_name", display_name |-> "Course/Program Name", field_type |-> "string", required |-> FALSE],
      [name |-> "grade_or_score", display_name |-> "Grade/Score", field_type |-> "string", required |-> FALSE],
      [name |-> "duration", display_name |-> "Duration", field_type |-> "string", required |-> FALSE],
      [name |-> "signatories", display_name |-> "Signatories", field_type |-> "array", required |-> FALSE] >>,
    classification_keywords |-> <<
      <<"c","e","r","t","i","f","i","c","a","t","e">>,
      <<"c","e","r","t","i","f","y">>,
      <<"c","e","r","t","i","f","i","c","a","t","i","o","n">>,
      <<"a","w","a","r","d","e","d">>,
      <<"a","c","h","i","e","v","e","m","e","n","t">>,
      <<"c","o","m","p","l","e","t","i","o","n">>,
      <<"h","e","r","e","b","y">>,
      <<"c","r","e","d","e","n","t","i","a","l">>,
      <<"h","o","n","o","r">>,
      <<"r","e","c","o","g","n","i","t","i","o","n">>,
      <<"c","o","n","f","e","r","r","e","d">> >> ]
\* DocumentProcessor.templates: the registry, in registration order.
templates ==
  << UANCardTemplate, AadhaarCardTemplate, PANCardTemplate, VoterIDTemplate,
     DrivingLicenseTemplate, TranscriptTemplate, IDDocumentTemplate,
     CertificateTemplate >>

\* BaseTemplate.field_names
field_names(T) == {T.field_definitions[i].name : i \in 1..Len(T.field_definitions)}

\* BaseTemplate.required_fields
required_fields(T) ==
  {T.field_definitions[i].name :
     i \in {j \in 1..Len(T.field_definitions) : T.field_definitions[j].required}}

----------------------------------------------------------------------------
(* BaseTemplate.classify and DocumentProcessor._classify_document          *)

\* Number of keywords of T found in the lower-cased text; the keywords
\* themselves are compared as written.
KeywordMatches(T, text) ==
  CHOOSE matches \in
    { Cardinality({i \in 1..Len(T.classification_keywords) :
                     py_in(T.classification_keywords[i], text_lower)}) :
        text_lower \in {py_lower(text)} } : TRUE

Max2(a, b) == IF a >= b THEN a ELSE b

\* BaseTemplate.classify: min(matches / max(len(keywords), 1), 1.0), as the
\* fraction [num, den].
classify(T, text) ==
  LET matches == KeywordMatches(T, text)
      den == Max2(Len(T.classification_keywords), 1)
  IN  IF matches >= den THEN [num |-> 1, den |-> 1]
      ELSE [num |-> matches, den |-> den]

\* a > b on fractions with positive denominators
FracGT(a, b) == a.num * b.den > b.num * a.den

FracLT(a, b) == FracGT(b, a)

FracGE(a, b) == ~FracGT(b, a)

FracEQ(a, b) == a.num * b.den = b.num * a.den

Zero == [num |-> 0, den |-> 1]

\* A variant of ClassifyLoop that keeps the last template of the best
\* score; C10_BestScoreEarliest tells it from ClassifyLoop.
RECURSIVE ClassifyLoop_LastBest(_, _, _, _)
ClassifyLoop_LastBest(text, i, best_template, best_score) ==
  IF i > Len(templates) THEN best_template
  ELSE CHOOSE best \in
         { IF FracGE(score, best_score)
           THEN ClassifyLoop_LastBest(text, i + 1, i, score)
           ELSE ClassifyLoop_LastBest(text, i + 1, best_template, best_score) :
             score \in {classify(templates[i], text)} } : TRUE

\* The loop of _classify_document over templates[i..]: keeps the first
\* template whose score is strictly above the best score so far.  The bound
\* variable is the local `score`, computed once in each turn.
RECURSIVE ClassifyLoop(_, _, _, _)
ClassifyLoop(text, i, best_template, best_score) ==
  IF i > Len(templates) THEN best_template
  ELSE CHOOSE best \in
         { IF FracGT(score, best_score)
           THEN ClassifyLoop(text, i + 1, i, score)
           ELSE ClassifyLoop(text, i + 1, best_template, best_score) :
             score \in {classify(templates[i], text)} } : TRUE

\* A variant of HintMatch that takes the last template of the hinted
\* category; C11_HintBypassesScoring tells it from HintMatch.
HintMatch_Last(type_hint) ==
  LET hits == {i \in 1..Len(templates) : templates[i].category = type_hint}
  IN  IF hits = {} THEN 0 ELSE CHOOSE i \in hits : \A j \in hits : i >= j

\* The index in the registry of the first template of the hinted category,
\* 0 when there is none.
HintMatch(type_hint) ==
  LET hits == {i \in 1..Len(templates) : templates[i].category = type_hint}
  IN  IF hits = {} THEN 0 ELSE CHOOSE i \in hits : \A j \in hits : i <= j

\* A variant of classify_document whose loop starts from the last registered
\* template; C30_ZeroScoresFirstTemplate tells it from classify_document.
classify_document_LastDefault(text, type_hint) ==
  IF type_hint # "none" /\ HintMatch(type_hint) # 0
  THEN HintMatch(type_hint)
  ELSE ClassifyLoop(text, 1, Len(templates), Zero)

\* DocumentProcessor._classify_document: the index of the template returned.
\* type_hint is "none" when no hint is given.
classify_document(text, type_hint) ==
  IF type_hint # "none" /\ HintMatch(type_hint) # 0
  THEN HintMatch(type_hint)
  ELSE ClassifyLoop(text, 1, 1, Zero)

\* The number of template.classify calls _classify_document makes: none
\* when the hint loop returns, one for each template otherwise.
classify_calls(type_hint) ==
  IF type_hint # "none" /\ HintMatch(type_hint) # 0 THEN 0 ELSE Len(templates)

----------------------------------------------------------------------------
(* BaseTemplate.validate                                                   *)

\* A variant of FieldErrors that leaves the thousands separators in the
\* value; C26_ValidateStructural tells it from FieldErrors.
FieldErrors_KeepsSeparators(field_def, fields) ==
  LET value == Get(fields, field_def.name)
      empty == value.t = "null" \/ value = Str(<<>>)
      required_error ==
        IF field_def.required /\ empty
        THEN << Message("Required field '{}' is missing", << field_def.display_name >>) >>
        ELSE << >>
      type_error ==
        IF ~empty /\ field_def.field_type = "number" /\ ~py_float_ok(PyStr(value))
        THEN << Message("Field '{}' should be a number", << field_def.display_name >>) >>
        ELSE << >>
  IN  required_error \o type_error

\* The errors validate appends for one field definition.
FieldErrors(field_def, fields) ==
  LET value == Get(fields, field_def.name)
      empty == value.t = "null" \/ value = Str(<<>>)
      required_error ==
        IF field_def.required /\ empty
        THEN << Message("Required field '{}' is missing", << field_def.display_name >>) >>
        ELSE << >>
      type_error ==
        IF ~empty /\ field_def.field_type = "number"
              /\ ~py_float_ok(py_remove(PyStr(value), ","))
        THEN << Message("Field '{}' should be a number", << field_def.display_name >>) >>
        ELSE << >>
  IN  required_error \o type_error

RECURSIVE ValidateFrom(_, _, _)
ValidateFrom(T, fields, i) ==
  IF i > Len(T.field_definitions) THEN << >>
  ELSE FieldErrors(T.field_definitions[i], fields) \o ValidateFrom(T, fields, i + 1)

\* BaseTemplate.validate: the error messages, in field-definition order.
validate(T, fields) == ValidateFrom(T, fields, 1)

----------------------------------------------------------------------------
(* post_process of each template.  The result is                           *)
(* [raised, exc, fields]: raised with the exception's message, or the      *)
(* processed copy of the fields.                                           *)

Returned(fields) == [raised |-> FALSE, exc |-> NoExc, fields |-> fields]

Raised(exc) == [raised |-> TRUE, exc |-> exc, fields |-> EmptyDict]

\* "if name in processed and processed[name]"
Present(fields, name) == Has(fields, name) /\ Truthy(fields[name])

\* processed[name] = processed[name].strip().title() under the guard above;
\* .strip() is called on the value itself, so a number raises.
StripTitleRaises(fields, name) == Present(fields, name) /\ fields[name].t # "str"

StripTitle(fields, name) ==
  IF Present(fields, name)
  THEN Put(fields, name, Str(py_title(py_strip(fields[name].s))))
  ELSE fields

\* The gender normalisation shared by the Aadhaar and the generic ID
\* template; male and female are the accepted upper-cased spellings.
NormalizeGender(fields, male, female) ==
  IF Present(fields, "gender")
  THEN LET gender == py_strip(py_upper(PyStr(fields["gender"])))
       IN  IF gender \in male THEN Put(fields, "gender", Str(<<"M", "a", "l", "e">>))
           ELSE IF gender \in female
                THEN Put(fields, "gender", Str(<<"F", "e", "m", "a", "l", "e">>))
                ELSE fields
  ELSE fields

\* AadhaarCardTemplate.post_process
Aadhaar_post_process(fields) ==
  LET p1 == IF Present(fields, "aadhaar_number")
            THEN LET aadhaar == py_remove(py_remove(PyStr(fields["aadhaar_number"]), " "), "-")
                 IN  IF Len(aadhaar) = 12 /\ py_isdigit(aadhaar)
                     THEN Put(fields, "aadhaar_number",
                              Str(SubSeq(aadhaar, 1, 4) \o <<" ">> \o SubSeq(aadhaar, 5, 8)
                                    \o <<" ">> \o SubSeq(aadhaar, 9, 12)))
                     ELSE fields
            ELSE fields
  IN  Returned(NormalizeGender(p1,
        { <<"M">>, <<"M", "A", "L", "E">>,
          <<"U+092A", "U+0941", "U+0930", "U+0941", "U+0937">> },
        { <<"F">>, <<"F", "E", "M", "A", "L", "E">>,
          <<"U+092E", "U+0939", "U+093F", "U+0932", "U+093E">> }))

\* PANCardTemplate.post_process
PAN_post_process(fields) ==
  Returned(IF Present(fields, "pan_number")
           THEN Put(fields, "pan_number",
                    Str(py_strip(py_upper(PyStr(fields["pan_number"])))))
           ELSE fields)

\* UANCardTemplate.post_process
UAN_post_process(fields) ==
  IF StripTitleRaises(fields, "member_name")
  THEN Raised(AttributeErrorOf(fields["member_name"]))
  ELSE LET p1 == StripTitle(fields, "member_name")
           uan == py_remove(py_remove(PyStr(Get(p1, "uan_number")), " "), "-")
       IN  Returned(IF Present(p1, "uan_number") /\ py_isdigit(uan)
                    THEN Put(p1, "uan_number", Str(uan))
                    ELSE p1)

\* TranscriptTemplate.post_process
Transcript_post_process(fields) ==
  LET match == re_search_number(PyStr(Get(fields, "gpa")))
      p1 == IF Present(fields, "gpa") /\ match.found
            THEN Put(fields, "gpa", Num(py_float_repr(match.int, match.frac)))
            ELSE fields
  IN  IF StripTitleRaises(p1, "student_name")
      THEN Raised(AttributeErrorOf(p1["student_name"]))
      ELSE Returned(StripTitle(p1, "student_name"))

\* The full_name synthesis of IDDocumentTemplate.post_process:
\* f"{first} {last}".strip() when full_name is falsy and first or last is not.
CombineNames(fields) ==
  LET first == GetOr(fields, "first_name", Str(<<>>))
      last == GetOr(fields, "last_name", Str(<<>>))
  IN  IF ~Truthy(Get(fields, "full_name")) /\ (Truthy(first) \/ Truthy(last))
      THEN Put(fields, "full_name", Str(py_strip(PyStr(first) \o <<" ">> \o PyStr(last))))
      ELSE fields

NameFields == << "full_name", "first_name", "last_name" >>

\* IDDocumentTemplate.post_process
IDDocument_post_process(fields) ==
  LET p1 == CombineNames(fields)
      bad == {i \in 1..Len(NameFields) : StripTitleRaises(p1, NameFields[i])}
  IN  IF bad # {}
      THEN Raised(AttributeErrorOf(p1[NameFields[CHOOSE i \in bad : \A j \in bad : i <= j]]))
      ELSE Returned(NormalizeGender(
             StripTitle(StripTitle(StripTitle(p1, "full_name"), "first_name"), "last_name"),
             { <<"M">>, <<"M", "A", "L", "E">> },
             { <<"F">>, <<"F", "E", "M", "A", "L", "E">> }))

TitlePrefixes ==
  << <<"C","e","r","t","i","f","i","c","a","t","e"," ","o","f"," ">>,
     <<"C","e","r","t","i","f","i","c","a","t","e"," ","f","o","r"," ">> >>

\* One turn of the prefix loop: title[len(prefix):] when the lower-cased
\* title starts with the lower-cased prefix.
DropPrefix(title, prefix) ==
  IF py_startswith(py_lower(title), py_lower(prefix))
  THEN SubSeq(title, Len(prefix) + 1, Len(title))
  ELSE title

\* CertificateTemplate.post_process
Certificate_post_process(fields) ==
  IF StripTitleRaises(fields, "recipient_name")
  THEN Raised(AttributeErrorOf(fields["recipient_name"]))
  ELSE IF StripTitleRaises(fields, "certificate_title")
  THEN Raised(AttributeErrorOf(fields["certificate_title"]))
  ELSE LET p1 == StripTitle(fields, "recipient_name")
       IN  Returned(IF Present(p1, "certificate_title")
                    THEN Put(p1, "certificate_title",
                             Str(DropPrefix(DropPrefix(py_strip(p1["certificate_title"].s),
                                                       TitlePrefixes[1]),
                                            TitlePrefixes[2])))
                    ELSE p1)

\* template.post_process, dispatched on the template's class; the Voter ID
\* and Driving License templates inherit BaseTemplate.post_process, which
\* returns the fields as they are.
post_process(T, fields) ==
  CASE T.name = "UANCardTemplate"     -> UAN_post_process(fields)
    [] T.name = "AadhaarCardTemplate" -> Aadhaar_post_process(fields)
    [] T.name = "PANCardTemplate"     -> PAN_post_process(fields)
    [] T.name = "TranscriptTemplate"  -> Transcript_post_process(fields)
    [] T.name = "IDDocumentTemplate"  -> IDDocument_post_process(fields)
    [] T.name = "CertificateTemplate" -> Certificate_post_process(fields)
    [] OTHER                          -> Returned(fields)

----------------------------------------------------------------------------
(* Settings (src/src/config.py)                                            *)

\* Settings.confidence_threshold, 0.8, in tenths
confidence_threshold == 8

\* Settings.max_file_size_mb
max_file_size_mb == 50

\* Settings.max_file_size_bytes
max_file_size_bytes == max_file_size_mb * 1024 * 1024

\* A confidence given in tenths, as a fraction
Tenths(c) == [num |-> c, den |-> 10]

----------------------------------------------------------------------------
(* OCRPipeline (src/src/extraction/ocr_engine.py)                          *)

\* The pipeline as OCRPipeline.__init__ leaves it when the processor builds
\* it: no engine given, nothing initialised.
OCRPipelineInit ==
  [ primary_engine |-> FALSE, fallback_engine |-> FALSE,
    primary_initialized |-> FALSE, fallback_initialized |-> FALSE,
    fallback_available |-> TRUE,
    confidence_threshold |-> confidence_threshold ]

\* An engine's recognize(): raises, or returns text with a confidence.
OcrRaise(exc) == [raised |-> TRUE, exc |-> exc, full_text |-> <<>>, confidence |-> Zero]

OcrOk(full_text, confidence) ==
  [raised |-> FALSE, exc |-> NoExc, full_text |-> full_text, confidence |-> confidence]

\* A variant of OCR_ensure_fallback that tries TesseractEngine() again while
\* the fallback is unavailable; C23_EnginesConstructedOnce tells it from
\* OCR_ensure_fallback.
OCR_ensure_fallback_Retry(self, ctor_ok) ==
  IF self.fallback_initialized /\ self.fallback_available THEN self
  ELSE [self EXCEPT
          !.fallback_engine = self.fallback_engine \/ ctor_ok,
          !.fallback_available = self.fallback_engine \/ ctor_ok,
          !.fallback_initialized = TRUE]

\* OCRPipeline._ensure_fallback; ctor_ok tells whether TesseractEngine()
\* can be constructed.
OCR_ensure_fallback(self, ctor_ok) ==
  IF self.fallback_initialized THEN self
  ELSE [self EXCEPT
          !.fallback_engine = self.fallback_engine \/ ctor_ok,
          !.fallback_available =
             IF ~self.fallback_engine /\ ~ctor_ok THEN FALSE ELSE self.fallback_available,
          !.fallback_initialized = TRUE]

\* What a call of OCRPipeline.process does: out is what it returns or
\* raises, self the pipeline afterwards, primary_calls and fallback_calls
\* the number of recognize() calls made on each engine.
OcrDone(self, out, primary_calls, fallback_calls) ==
  [self |-> self, out |-> out,
   primary_calls |-> primary_calls, fallback_calls |-> fallback_calls]

\* A variant of OcrKeepsPrimary that asks for a confidence above the
\* threshold; C12_FallbackOnlyWhenNeeded tells it from OcrKeepsPrimary.
OcrKeepsPrimary_Strict(self, result) ==
  FracGT(result.confidence, Tenths(self.confidence_threshold))

\* "if result.confidence >= self.confidence_threshold: return result"
OcrKeepsPrimary(self, result) ==
  FracGE(result.confidence, Tenths(self.confidence_threshold))

\* A variant of OcrUseFallback that calls the fallback engine whether it is
\* there or not; C15_UnavailableIsNoFallback tells it from OcrUseFallback.
OcrUseFallback_Always(self) == TRUE

\* "if self._fallback_available and self.fallback_engine"
OcrUseFallback(self) == self.fallback_available /\ self.fallback_engine

\* A variant of OcrPrefersFallback that takes the fallback result on equal
\* confidences; C13_HigherConfidenceWins tells it from OcrPrefersFallback.
OcrPrefersFallback_OnTies(fallback_out, result) ==
  ~fallback_out.raised /\ FracGE(fallback_out.confidence, result.confidence)

\* The fallback's recognize() returned and
\* "fallback_result.confidence > result.confidence"
OcrPrefersFallback(fallback_out, result) ==
  ~fallback_out.raised /\ FracGT(fallback_out.confidence, result.confidence)

\* OCRPipeline.process.  primary_ctor_ok and fallback_ctor_ok tell whether
\* the engines can be constructed, primary_out and fallback_out what their
\* recognize() does when called.
OCR_process(self, primary_ctor_ok, primary_out, fallback_ctor_ok, fallback_out) ==
  IF ~self.primary_initialized /\ ~self.primary_engine /\ ~primary_ctor_ok
  THEN \* EasyOCREngine() raises out of _ensure_primary, outside the try
       OcrDone(self, OcrRaise(Message("No module named 'easyocr'", << >>)), 0, 0)
  ELSE
    LET s1 == [self EXCEPT !.primary_engine = TRUE, !.primary_initialized = TRUE]
        s2 == OCR_ensure_fallback(s1, fallback_ctor_ok)
    IN  IF ~primary_out.raised
        THEN IF OcrKeepsPrimary(self, primary_out)
             THEN OcrDone(s1, primary_out, 1, 0)
             ELSE IF OcrUseFallback(s2)
                  THEN IF OcrPrefersFallback(fallback_out, primary_out)
                       THEN OcrDone(s2, fallback_out, 1, 1)
                       ELSE OcrDone(s2, primary_out, 1, 1)
                  ELSE OcrDone(s2, primary_out, 1, 0)
        ELSE IF OcrUseFallback(s2)
             THEN IF fallback_out.raised
                  THEN OcrDone(s2, OcrRaise(Message("Both OCR engines failed. Primary: {}, Fallback: {}",
                                               << primary_out.exc.fmt, fallback_out.exc.fmt >>)), 1, 1)
                  ELSE OcrDone(s2, fallback_out, 1, 1)
             ELSE OcrDone(s2, OcrRaise(Message("OCR failed: {}", << primary_out.exc.fmt >>)), 1, 0)

----------------------------------------------------------------------------
(* LLMPipeline (src/src/extraction/llm_extractor.py)                       *)

\* ExtractedField
Field(value, confidence) == [value |-> value, confidence |-> confidence]

NoFields == [x \in {} |-> Field(Null, 0)]

\* A response text: one that holds no {...}, one whose {...} does not
\* decode, or one that decodes; Response(kind, fields) is the text.
Response(kind, fields) == [kind |-> kind, fields |-> fields]

\* The empty response text "", also the default of raw_response
EmptyResponse == Response("empty", [x \in {} |-> [object |-> FALSE]])

\* An engine's extract(): raises, or returns an ExtractionResult.
LlmRaise(exc) ==
  [raised |-> TRUE, exc |-> exc, success |-> FALSE, error |-> NoExc,
   fields |-> NoFields, model_used |-> "", raw_response |-> EmptyResponse]

ExtractionResult(success, error, fields, model_used) ==
  [raised |-> FALSE, exc |-> NoExc, success |-> success, error |-> error,
   fields |-> fields, model_used |-> model_used, raw_response |-> EmptyResponse]

\* An entry of the "fields" object of a decoded response: a nested object
\* with a "value" and perhaps a "confidence", or a bare scalar.
ObjectEntry(value, confidence) ==
  [object |-> TRUE, value |-> value, has_confidence |-> TRUE, confidence |-> confidence]

ObjectEntryNoConfidence(value) ==
  [object |-> TRUE, value |-> value, has_confidence |-> FALSE, confidence |-> 0]

ScalarEntry(value) ==
  [object |-> FALSE, value |-> value, has_confidence |-> FALSE, confidence |-> 0]

\* The confidence given to an entry that states none, 0.5, in tenths
default_confidence == 5

\* The ExtractedField _parse_response builds from one entry:
\* float(field_data.get("confidence", 0.5)) is taken as it is.
ParseEntry(entry) ==
  IF entry.object
  THEN Field(entry.value,
             IF entry.has_confidence THEN entry.confidence ELSE default_confidence)
  ELSE Field(entry.value, default_confidence)

\* The response texts: TextResponse holds no {...}; the {...} of
\* BrokenResponse does not decode; JsonResponse(fields) decodes to an
\* object with these "fields".  The others decode to another shape:
\* NoFieldsResponse to an object without "fields", FieldsListResponse to one
\* whose "fields" is a list, BadConfidenceResponse to one with a field whose
\* "confidence" is not a number ("high").
TextResponse == Response("text", [x \in {} |-> ScalarEntry(Null)])

BrokenResponse == Response("broken", [x \in {} |-> ScalarEntry(Null)])

JsonResponse(fields) == Response("json", fields)

NoFieldsResponse == Response("no_fields", [x \in {} |-> ScalarEntry(Null)])

FieldsListResponse == Response("fields_list", [x \in {} |-> ScalarEntry(Null)])

BadConfidenceResponse(fields) == Response("bad_confidence", fields)

\* LLMExtractor._parse_response: the result returned, with the response as
\* raw_response, or the exception that leaves it (only JSONDecodeError is
\* caught there).
parse_response(response) ==
  CASE response.kind \in {"text", "empty"} ->
         [ExtractionResult(FALSE, Message("No JSON found in response", << >>), NoFields, "")
            EXCEPT !.raw_response = response]
    [] response.kind = "broken" ->
         [ExtractionResult(FALSE, Message("JSON parse error: {}", << >>), NoFields, "")
            EXCEPT !.raw_response = response]
    [] response.kind = "no_fields" ->
         [ExtractionResult(TRUE, NoExc, NoFields, "") EXCEPT !.raw_response = response]
    [] response.kind = "fields_list" ->
         LlmRaise(Message("'list' object has no attribute 'items'", << >>))
    [] response.kind = "bad_confidence" ->
         LlmRaise(Message("could not convert string to float: 'high'", << >>))
    [] OTHER ->
         [ExtractionResult(TRUE, NoExc,
                           [k \in DOMAIN response.fields |-> ParseEntry(response.fields[k])],
                           "")
            EXCEPT !.raw_response = response]

\* What the model's chat call does: raises, or answers with a response.
ChatRaise(exc) == [raised |-> TRUE, exc |-> exc, response |-> TextResponse]

ChatOk(response) == [raised |-> FALSE, exc |-> NoExc, response |-> response]

\* The body of an engine's extract(): the chat call and _parse_response in
\* one try, every exception of either becoming a failed result that names
\* the engine and carries no raw_response.
EngineExtract(chat, engine, model_used) ==
  CHOOSE result \in
    { IF chat.raised \/ parsed.raised
      THEN ExtractionResult(FALSE,
             Message(engine, << IF chat.raised THEN chat.exc.fmt ELSE parsed.exc.fmt >>),
             NoFields, model_used)
      ELSE [parsed EXCEPT !.model_used = model_used] :
        parsed \in {parse_response(chat.response)} } : TRUE

\* OllamaExtractor.extract
Ollama_extract(chat) == EngineExtract(chat, "Ollama error: {}", "ollama/llama3.2")

\* GeminiExtractor.extract
Gemini_extract(chat) == EngineExtract(chat, "Gemini error: {}", "gemini/gemini-1.5-flash")

\* LLMPipeline.__init__ as the processor calls it.
LLMPipelineInit ==
  [ primary |-> FALSE, fallback |-> FALSE,
    primary_initialized |-> FALSE, fallback_initialized |-> FALSE,
    use_fallback_on_low_confidence |-> TRUE,
    confidence_threshold |-> confidence_threshold ]

RECURSIVE SumConfidence(_, _)
SumConfidence(confidences, keys) ==
  IF keys = {} THEN 0
  ELSE LET k == CHOOSE x \in keys : TRUE
       IN  confidences[k] + SumConfidence(confidences, keys \ {k})

\* The mean of the confidences (tenths) of the given keys, 0.0 for no key.
MeanConfidence(confidences, keys) ==
  IF keys = {} THEN Zero
  ELSE [num |-> SumConfidence(confidences, keys), den |-> 10 * Cardinality(keys)]

\* LLMPipeline._average_confidence
average_confidence(result) ==
  MeanConfidence([k \in DOMAIN result.fields |-> result.fields[k].confidence],
                 DOMAIN result.fields)

\* LLMPipeline._ensure_fallback; ctor_ok is FALSE when GeminiExtractor()
\* raises ValueError (no API key).
LLM_ensure_fallback(self, ctor_ok) ==
  IF self.fallback_initialized THEN self
  ELSE [self EXCEPT !.fallback = self.fallback \/ ctor_ok,
                    !.fallback_initialized = TRUE]

LlmDone(self, out, primary_calls, fallback_calls) ==
  [self |-> self, out |-> out,
   primary_calls |-> primary_calls, fallback_calls |-> fallback_calls]

\* A variant of LlmKeepsPrimary that asks for a mean confidence above the
\* threshold; C16_FallbackOnlyWhenNeeded tells it from LlmKeepsPrimary.
LlmKeepsPrimary_Strict(self, result) ==
  FracGT(average_confidence(result), Tenths(self.confidence_threshold))

\* "if avg_confidence >= self.confidence_threshold: return result"
LlmKeepsPrimary(self, result) ==
  FracGE(average_confidence(result), Tenths(self.confidence_threshold))

\* A variant of LlmTriesFallback that tries the fallback for a failed
\* primary only if fallback on low confidence is enabled;
\* C18_FailedPrimaryTriesFallback tells it from LlmTriesFallback.
LlmTriesFallback_IfEnabled(self) == self.fallback /\ self.use_fallback_on_low_confidence

\* "if self.fallback:" after a failed or raising primary
LlmTriesFallback(self) == self.fallback

\* LLMPipeline.extract.  primary_out and fallback_out are what the engines'
\* extract() does when called, fallback_ctor_ok whether the Gemini engine
\* can be constructed.  A fallback call made inside the try block that
\* raises is caught by the except clause, which calls the fallback again:
\* fallback_retry_out is what that second call does.
LLM_extract(self, primary_out, fallback_ctor_ok, fallback_out, fallback_retry_out) ==
  LET s1 == [self EXCEPT !.primary = TRUE, !.primary_initialized = TRUE]
      s2 == LLM_ensure_fallback(s1, fallback_ctor_ok)
      avg_confidence == average_confidence(primary_out)
  IN  IF primary_out.raised
      THEN IF LlmTriesFallback(s2)
           THEN LlmDone(s2, fallback_out, 1, 1)
           ELSE LlmDone(s2, ExtractionResult(FALSE,
                          Message("All extractors failed: {}", << primary_out.exc.fmt >>),
                          NoFields, ""), 1, 0)
      ELSE IF primary_out.success
      THEN IF LlmKeepsPrimary(self, primary_out)
           THEN LlmDone(s1, primary_out, 1, 0)
           ELSE IF self.use_fallback_on_low_confidence
                THEN IF s2.fallback
                     THEN IF fallback_out.raised
                          THEN LlmDone(s2, fallback_retry_out, 1, 2)
                          ELSE IF fallback_out.success
                                  /\ FracGT(average_confidence(fallback_out), avg_confidence)
                               THEN LlmDone(s2, fallback_out, 1, 1)
                               ELSE LlmDone(s2, primary_out, 1, 1)
                     ELSE LlmDone(s2, primary_out, 1, 0)
                ELSE LlmDone(s1, primary_out, 1, 0)
      ELSE IF LlmTriesFallback(s2)
           THEN IF fallback_out.raised
                THEN LlmDone(s2, fallback_retry_out, 1, 2)
                ELSE LlmDone(s2, fallback_out, 1, 1)
           ELSE LlmDone(s2, primary_out, 1, 0)
----------------------------------------------------------------------------
(* DocumentLoader (src/src/ingestion/loader.py)                            *)

DocumentTypes == {"pdf", "image", "docx"}

\* DocumentLoader.detect_type.  A file is described by its size and by the
\* type each lookup yields for it ("unknown" when the lookup finds none):
\* by_ext from EXTENSION_MAP, by_mime from MIME_TYPE_MAP, by_magic from the
\* magic bytes, which are looked at only when the content is not empty.
detect_type(file) ==
  IF file.by_ext # "unknown" THEN file.by_ext
  ELSE IF file.by_mime # "unknown" THEN file.by_mime
  ELSE IF file.size > 0 THEN file.by_magic
  ELSE "unknown"

\* A variant of Loader_validate without the check for empty content;
\* C9_EmptyContentRejected tells it from Loader_validate.
Loader_validate_NoEmptyCheck(file) ==
  IF file.size > max_file_size_bytes
  THEN Message("File size {} bytes exceeds maximum {} bytes", << >>)
  ELSE IF detect_type(file) = "unknown"
  THEN Message("Unsupported file type: {}. Supported types: PDF, JPG, PNG, DOCX", << >>)
  ELSE NoExc

\* DocumentLoader.validate: the message of the DocumentValidationError it
\* raises, NoExc when the file passes.
Loader_validate(file) ==
  IF file.size > max_file_size_bytes
  THEN Message("File size {} bytes exceeds maximum {} bytes", << >>)
  ELSE IF file.size = 0
  THEN Message("File is empty", << >>)
  ELSE IF detect_type(file) = "unknown"
  THEN Message("Unsupported file type: {}. Supported types: PDF, JPG, PNG, DOCX", << >>)
  ELSE NoExc

NoDocument == [document_type |-> "unknown", file_size |-> 0]

Loaded(exc, document) == [raised |-> exc # NoExc, exc |-> exc, document |-> document]

\* DocumentLoader.load_from_bytes: raises, or returns the LoadedDocument.
load_from_bytes(file) ==
  IF Loader_validate(file) # NoExc
  THEN Loaded(Loader_validate(file), NoDocument)
  ELSE Loaded(NoExc, [document_type |-> detect_type(file), file_size |-> file.size])

\* DocumentLoader.load_from_path; exists tells whether the path exists.
load_from_path(exists, file) ==
  IF ~exists THEN Loaded(Message("File not found: {}", << >>), NoDocument)
  ELSE load_from_bytes(file)

----------------------------------------------------------------------------
(* DocumentProcessor._build_response (src/src/processor.py)                *)

\* ExtractionError
ExtractionError(code, message) == [code |-> code, message |-> message]

RECURSIVE ValidationErrors(_)
ValidationErrors(messages) ==
  IF messages = << >> THEN << >>
  ELSE << ExtractionError("VALIDATION_ERROR", Head(messages)) >>
         \o ValidationErrors(Tail(messages))

\* The product of two fractions
FracMul(a, b) == [num |-> a.num * b.num, den |-> a.den * b.den]

\* "no OCR result" (None)
NoOcr == [present |-> FALSE, full_text |-> << >>, confidence |-> Zero]

\* OCRResult
OCRResult(full_text, confidence) ==
  [present |-> TRUE, full_text |-> full_text, confidence |-> confidence]

\* The threshold below which the OCR confidence discounts the overall
\* confidence, 0.7, in tenths
ocr_discount_below == 7

\* A variant of OcrDiscounts that also discounts at the threshold itself;
\* C22_OverallConfidence tells it from OcrDiscounts.
OcrDiscounts_AtThreshold(ocr_result) ==
  ocr_result.present /\ ~FracGT(ocr_result.confidence, Tenths(ocr_discount_below))

\* "if ocr_result and ocr_result.confidence < 0.7"
OcrDiscounts(ocr_result) ==
  ocr_result.present /\ FracLT(ocr_result.confidence, Tenths(ocr_discount_below))

\* A variant of NonNullFields that counts every field, null or not;
\* C4_AllNullFields tells it from NonNullFields.
NonNullFields_All(llm_result, extracted_data) == DOMAIN llm_result.fields

\* The fields of llm_result whose post-processed value is not None.
NonNullFields(llm_result, extracted_data) ==
  {k \in DOMAIN llm_result.fields : Get(extracted_data, k).t # "null"}

\* overall_confidence as _build_response computes it
OverallConfidence(llm_result, extracted_data, ocr_result) ==
  LET field_confidences == [k \in DOMAIN llm_result.fields |-> llm_result.fields[k].confidence]
      mean == MeanConfidence(field_confidences, NonNullFields(llm_result, extracted_data))
  IN  IF OcrDiscounts(ocr_result)
      THEN FracMul(mean, ocr_result.confidence)
      ELSE mean

\* A variant of StatusOf that looks at the validation errors before the
\* success of the LLM result; C1_StatusPriority tells it from StatusOf.
StatusOf_ValidationFirst(llm_result, validation_errors, overall_confidence) ==
  IF validation_errors # << >>
  THEN [status |-> "requires_review", requires_review |-> TRUE,
        errors |-> ValidationErrors(validation_errors)]
  ELSE IF ~llm_result.success
  THEN [status |-> "failed", requires_review |-> FALSE,
        errors |-> << ExtractionError("LLM_ERROR", llm_result.error) >>]
  ELSE IF FracLT(overall_confidence, Tenths(confidence_threshold))
  THEN [status |-> "requires_review", requires_review |-> TRUE,
        errors |-> << ExtractionError("LOW_CONFIDENCE",
                        [fmt |-> "Overall confidence {:.2f} below threshold", args |-> << >>,
                         num |-> overall_confidence.num, den |-> overall_confidence.den]) >>]
  ELSE [status |-> "completed", requires_review |-> FALSE, errors |-> << >>]

\* A variant of StatusOf that reports a low overall confidence with the
\* status completed; C28_StatusConsistent tells it from StatusOf.
StatusOf_LowConfidenceCompleted(llm_result, validation_errors, overall_confidence) ==
  IF ~llm_result.success
  THEN [status |-> "failed", requires_review |-> FALSE,
        errors |-> << ExtractionError("LLM_ERROR", llm_result.error) >>]
  ELSE IF validation_errors # << >>
  THEN [status |-> "requires_review", requires_review |-> TRUE,
        errors |-> ValidationErrors(validation_errors)]
  ELSE IF FracLT(overall_confidence, Tenths(confidence_threshold))
  THEN [status |-> "completed", requires_review |-> TRUE,
        errors |-> << ExtractionError("LOW_CONFIDENCE",
                        [fmt |-> "Overall confidence {:.2f} below threshold", args |-> << >>,
                         num |-> overall_confidence.num, den |-> overall_confidence.den]) >>]
  ELSE [status |-> "completed", requires_review |-> FALSE, errors |-> << >>]

\* The status and the errors _build_response decides on
StatusOf(llm_result, validation_errors, overall_confidence) ==
  IF ~llm_result.success
  THEN [status |-> "failed", requires_review |-> FALSE,
        errors |-> << ExtractionError("LLM_ERROR", llm_result.error) >>]
  ELSE IF validation_errors # << >>
  THEN [status |-> "requires_review", requires_review |-> TRUE,
        errors |-> ValidationErrors(validation_errors)]
  ELSE IF FracLT(overall_confidence, Tenths(confidence_threshold))
  THEN [status |-> "requires_review", requires_review |-> TRUE,
        errors |-> << ExtractionError("LOW_CONFIDENCE",
                        [fmt |-> "Overall confidence {:.2f} below threshold", args |-> << >>,
                         num |-> overall_confidence.num, den |-> overall_confidence.den]) >>]
  ELSE [status |-> "completed", requires_review |-> FALSE, errors |-> << >>]

\* doc_type_map.get(template.category, DocumentTypeEnum.UNKNOWN)
DocTypeOf(category) ==
  IF category \in {"transcript", "id_document", "certificate"} THEN category ELSE "unknown"

\* A variant of OverallConfidenceValid that accepts every value;
\* C7_OverallConfidence tells it from OverallConfidenceValid.
OverallConfidenceValid_Unchecked(c) == TRUE

\* The constraint Field(ge=0.0, le=1.0) on ExtractionResponse.overall_confidence
OverallConfidenceValid(c) == 0 <= c.num /\ c.num <= c.den

\* processing_time_ms before it is set (None)
NoTime == -1

NoResponse ==
  [document_id |-> "", status |-> "pending", document_type |-> "unknown",
   extracted_data |-> EmptyDict, field_confidences |-> [x \in {} |-> 0],
   overall_confidence |-> Zero, errors |-> << >>, requires_review |-> FALSE,
   processing_time_ms |-> NoTime, model_used |-> ""]

Built(exc, response) == [raised |-> exc # NoExc, exc |-> exc, response |-> response]

\* _build_response from the post-processed fields on: validation, overall
\* confidence, status, and the ExtractionResponse constructor, which raises
\* when overall_confidence is not in [0, 1].  The bound variables are the
\* locals of the method, each computed once.
BuildFrom(document_id, T, llm_result, ocr_result, extracted_data) ==
  CHOOSE built \in
    { IF ~OverallConfidenceValid(overall_confidence)
      THEN Built(Message("1 validation error for ExtractionResponse: overall_confidence",
                         << >>), NoResponse)
      ELSE Built(NoExc,
             [document_id |-> document_id, status |-> decided.status,
              document_type |-> DocTypeOf(T.category),
              extracted_data |-> extracted_data,
              field_confidences |->
                [k \in DOMAIN llm_result.fields |-> llm_result.fields[k].confidence],
              overall_confidence |-> overall_confidence,
              errors |-> decided.errors,
              requires_review |-> decided.requires_review,
              processing_time_ms |-> NoTime,
              model_used |-> llm_result.model_used]) :
        overall_confidence \in {OverallConfidence(llm_result, extracted_data, ocr_result)},
        decided \in {StatusOf(llm_result, validate(T, extracted_data),
                              OverallConfidence(llm_result, extracted_data, ocr_result))} } :
      TRUE

\* DocumentProcessor._build_response: raises (out of post_process or out of
\* the ExtractionResponse constructor) or returns the response.
build_response(document_id, T, llm_result, ocr_result) ==
  LET raw == [k \in DOMAIN llm_result.fields |-> llm_result.fields[k].value]
  IN  CHOOSE built \in
        { IF processed.raised THEN Built(processed.exc, NoResponse)
          ELSE BuildFrom(document_id, T, llm_result, ocr_result, processed.fields) :
            processed \in {post_process(T, raw)} } : TRUE

\* A variant of FailedResponse that drops the exception's message;
\* C3_ExceptionBecomesFailed tells it from FailedResponse.
FailedResponse_NoMessage(document_id, exc, processing_time) ==
  [document_id |-> document_id, status |-> "failed", document_type |-> "unknown",
   extracted_data |-> EmptyDict, field_confidences |-> [x \in {} |-> 0],
   overall_confidence |-> Zero,
   errors |-> << ExtractionError("PROCESSING_ERROR", NoExc) >>,
   requires_review |-> FALSE,
   processing_time_ms |-> processing_time, model_used |-> ""]

\* The response process_file builds in its except clause
FailedResponse(document_id, exc, processing_time) ==
  [document_id |-> document_id, status |-> "failed", document_type |-> "unknown",
   extracted_data |-> EmptyDict, field_confidences |-> [x \in {} |-> 0],
   overall_confidence |-> Zero,
   errors |-> << ExtractionError("PROCESSING_ERROR", exc) >>,
   requires_review |-> FALSE,
   processing_time_ms |-> processing_time, model_used |-> ""]

\* ProcessingResult
ProcessingResult(document_id, success, response, processing_time) ==
  [document_id |-> document_id, success |-> success, response |-> response,
   processing_time_ms |-> processing_time]

NoResult == ProcessingResult("", FALSE, NoResponse, NoTime)

----------------------------------------------------------------------------
(* The documents, texts and engine answers the model draws from            *)

\* "UAN Passport"
TextUanPassport == <<"U","A","N"," ","P","a","s","s","p","o","r","t">>

\* "Passport Certificate"
TextPassportCertificate == <<"P","a","s","s","p","o","r","t"," ","C","e","r","t","i","f","i","c","a","t","e">>

\* "RTO GPA"
TextRtoGpa == <<"R","T","O"," ","G","P","A">>

\* "Aadhaar UIDAI"
TextAadhaar == <<"A","a","d","h","a","a","r"," ","U","I","D","A","I">>

\* "Income Tax PAN"
TextPan == <<"I","n","c","o","m","e"," ","T","a","x"," ","P","A","N">>

\* "Voter EPIC"
TextVoter == <<"V","o","t","e","r"," ","E","P","I","C">>

\* "Official Transcript"
TextTranscript == <<"O","f","f","i","c","i","a","l"," ","T","r","a","n","s","c","r","i","p","t">>

\* "Certificate of Completion"
TextCertificate == <<"C","e","r","t","i","f","i","c","a","t","e"," ","o","f"," ","C","o","m","p","l","e","t","i","o","n">>

\* "NSDL UTI"
TextNsdlUti == <<"N","S","D","L"," ","U","T","I">>

\* The length below which the extracted text is taken to need OCR
\* ("len(text.strip()) < 100")
min_text_length == 100

\* A text of min_text_length characters and more: long enough to need no OCR
TextLong == TextTranscript \o [i \in 1..min_text_length |-> "x"]

\* Document texts: for each template one that classifies to it, two with
\* tied best scores, one that matches no keyword
SampleTexts ==
  { << >>, TextUanPassport, TextPassportCertificate, TextRtoGpa, TextAadhaar,
    TextPan, TextVoter, TextTranscript, TextCertificate, TextNsdlUti, TextLong }

\* Texts a DOCX file holds
DocxTexts == { << >>, TextPassportCertificate, TextLong }

\* Texts a PDF page holds
PageTexts == { << >>, TextLong }

\* Texts an OCR engine reads off an image
OcrTexts == { TextRtoGpa }

\* The most pages a PDF has
MaxPages == 2

\* The values of document_type_hint; "none" is no hint
Hints == {"none", "transcript", "id_document", "certificate", "unknown"}

\* File sizes: empty, the smallest, the largest allowed, one byte too large
FileSizes == {0, 1, max_file_size_bytes, max_file_size_bytes + 1}

LookupTypes == DocumentTypes \cup {"unknown"}

\* The files submitted: every size with every outcome of the three lookups
\* of detect_type
Files ==
  [size : FileSizes, by_ext : LookupTypes, by_mime : {"unknown", "image"},
   by_magic : {"unknown", "pdf"}]

\* Confidences (tenths) an OCR engine reports: EasyOCR and Tesseract both
\* report a mean of word confidences in [0, 1]
OcrConfidences == {5, 9}

EngineError == Message("engine error", << >>)

\* What recognize() of an OCR engine can do on one image
OcrOutcomes ==
  {OcrRaise(EngineError)} \cup
  {OcrOk(t, Tenths(c)) : t \in OcrTexts, c \in OcrConfidences}

\* What the fallback OCR engine can do (fewer texts: what it reads matters
\* only when it is the better answer)
OcrFallbackOutcomes ==
  {OcrRaise(EngineError)} \cup
  {OcrOk(t, Tenths(c)) : t \in {TextUanPassport}, c \in OcrConfidences}

\* Values an LLM returns for a field: null, "", a name to normalise, a number
SampleValues == {Null, Str(<< >>), Str(<<" ", "a", "b">>), Num(<<"7">>)}

\* Confidences (tenths) an LLM states; nothing keeps them in [0, 1]
SampleConfidences == {0, 9, 15}

\* The entries an answer holds for a field
SampleEntries ==
  {ObjectEntry(v, c) : v \in SampleValues, c \in SampleConfidences}
    \cup {ScalarEntry(Str(<<"A", "b">>))}

\* The fields a post_process of some template rewrites
NormalizedFields ==
  {"full_name", "first_name", "last_name", "gender", "aadhaar_number", "pan_number",
   "member_name", "uan_number", "gpa", "student_name", "recipient_name",
   "certificate_title"}

\* The keys an LLM answer is varied on: the template's required, numeric and
\* normalised fields, and one key the template does not declare
EditNames(T) ==
  required_fields(T)
    \cup {T.field_definitions[i].name :
            i \in {j \in 1..Len(T.field_definitions) :
                     T.field_definitions[j].field_type = "number"}}
    \cup (NormalizedFields \cap field_names(T))
    \cup {"notes"}

\* d without the key k
Remove(d, k) == [x \in (DOMAIN d) \ {k} |-> d[x]]

NoEntries == [x \in {} |-> ScalarEntry(Null)]

\* The complete answer: every required field, well-formed, confidence c
Complete(T, c) == [k \in required_fields(T) |-> ObjectEntry(Str(<<"A", "b">>), c)]

\* The most fields in which an LLM answer differs from the empty or the
\* complete answer
MaxEdits == 1

\* The "fields" objects that differ from one of `base` in at most n keys
RECURSIVE Edited(_, _, _)
Edited(T, base, n) ==
  IF n = 0 THEN base
  ELSE LET prev == Edited(T, base, n - 1)
       IN  prev
            \cup {Put(d, k, e) : d \in prev, k \in EditNames(T), e \in SampleEntries}
            \cup {Remove(d, k) : d \in prev, k \in EditNames(T)}

\* The "fields" objects of the answers drawn for template T
FieldSets(T) == Edited(T, {NoEntries, Complete(T, 9)}, MaxEdits)

\* What the chat call of an LLM engine can do, when _build_response is
\* looked at alone
Chats(T) ==
  {ChatRaise(EngineError), ChatOk(TextResponse), ChatOk(BrokenResponse)}
    \cup {ChatOk(JsonResponse(f)) : f \in FieldSets(T)}

\* What the chat call can do when the whole of process_file is looked at
FewChats(T) ==
  {ChatRaise(EngineError), ChatOk(TextResponse)}
    \cup {ChatOk(JsonResponse(f)) :
            f \in {NoEntries, Complete(T, 9), Complete(T, 0), Complete(T, 15)}}

\* What extract() of the primary LLM engine can do: OllamaExtractor.extract
\* on a chat, or an exception out of an engine that does not catch its own
LlmOutcomes(T) ==
  {LlmRaise(EngineError)} \cup {Ollama_extract(chat) : chat \in FewChats(T)}

\* What extract() of the fallback LLM engine can do
LlmFallbackOutcomes(T) ==
  {LlmRaise(EngineError)} \cup
  {Gemini_extract(ChatOk(JsonResponse(Complete(T, 9))))}

----------------------------------------------------------------------------
(* DocumentProcessor.process_file as a state machine                       *)

VARIABLES
  pc,            \* where process_file stands: idle, load, extract, ocr,
                 \* classify, llm, build, done
  args,          \* file_path, content, document_type_hint
  document_id,   \* str(uuid4())
  elapsed,       \* time.time() - start_time, in steps
  document,      \* the LoadedDocument
  text,          \* the document text
  images,        \* the number of page images
  ocr_acc,       \* _run_ocr's loop: images done, all_text, total_confidence
  ocr_result,    \* the combined OCRResult, NoOcr for None
  template,      \* index in templates of the template chosen, 0 before
  llm_result,    \* what llm_pipeline.extract returned
  result,        \* the ProcessingResult returned
  caught,        \* the exception the except clause caught, NoExc if none
  calls,         \* calls made, for this document, on each collaborator
  ocr_pipeline,  \* the OCRPipeline's fields
  llm_pipeline,  \* the LLMPipeline's fields
  ocr_call,      \* the last call of ocr_pipeline.process made on the
                 \* pipeline directly: what the engines did in it and what
                 \* it returned or raised
  llm_call,      \* the same for llm_pipeline.extract
  engine_call,   \* a call of an LLM engine's extract made directly: the
                 \* engine and what its model's chat call does
  validate_call, \* a template's validate called directly
  post_call      \* a template's post_process called directly, once and
                 \* again on what it returned

vars ==
  << pc, args, document_id, elapsed, document, text, images, ocr_acc, ocr_result,
     template, llm_result, result, caught, calls, ocr_pipeline, llm_pipeline,
     ocr_call, llm_call, engine_call, post_call, validate_call >>

NoCalls ==
  [ pdf_parser |-> 0, image_parser |-> 0, docx_parser |-> 0, enhancer |-> 0,
    ocr_primary |-> 0, ocr_fallback |-> 0, llm_primary |-> 0, llm_fallback |-> 0,
    classify |-> 0 ]

NoArgs == [file_path |-> "none", content |-> "none", document_type_hint |-> "none"]

NoOcrAcc == [done |-> 0, all_text |-> << >>, total_confidence |-> Zero]

NoLlmResult == ExtractionResult(FALSE, NoExc, NoFields, "")

\* The place of the outcome of an engine that was not called
NotRecognized == OcrOk(<< >>, Zero)

\* No call of ocr_pipeline.process made yet
NoOcrCall ==
  [ n |-> 0, before |-> OCRPipelineInit, primary_out |-> NotRecognized,
    fallback_out |-> NotRecognized, out |-> NotRecognized,
    primary_calls |-> 0, fallback_calls |-> 0, after |-> OCRPipelineInit ]

\* The n-th call of ocr_pipeline.process, made on the pipeline `before`:
\* done is what OCR_process gives (after is the pipeline it leaves),
\* primary_out and fallback_out what the
\* engines' recognize() did, kept for the engines that were called.
OcrCall(n, before, done, primary_out, fallback_out) ==
  [ n |-> n, before |-> before,
    primary_out |-> IF done.primary_calls = 0 THEN NotRecognized ELSE primary_out,
    fallback_out |-> IF done.fallback_calls = 0 THEN NotRecognized ELSE fallback_out,
    out |-> done.out,
    primary_calls |-> done.primary_calls, fallback_calls |-> done.fallback_calls,
    after |-> done.self ]

\* No call of llm_pipeline.extract made yet
NoLlmCall ==
  [ n |-> 0, before |-> LLMPipelineInit, primary_out |-> NoLlmResult,
    fallback_out |-> NoLlmResult, fallback_retry_out |-> NoLlmResult,
    out |-> NoLlmResult, primary_calls |-> 0, fallback_calls |-> 0,
    after |-> LLMPipelineInit ]

\* The n-th call of llm_pipeline.extract, made on the pipeline `before`:
\* done is what LLM_extract gives, the outcomes those of the engines'
\* extract(), kept for the calls that were made.
LlmCall(n, before, done, primary_out, fallback_out, fallback_retry_out) ==
  [ n |-> n, before |-> before,
    primary_out |-> IF done.primary_calls = 0 THEN NoLlmResult ELSE primary_out,
    fallback_out |-> IF done.fallback_calls = 0 THEN NoLlmResult ELSE fallback_out,
    fallback_retry_out |->
      IF done.fallback_calls < 2 THEN NoLlmResult ELSE fallback_retry_out,
    out |-> done.out,
    primary_calls |-> done.primary_calls, fallback_calls |-> done.fallback_calls,
    after |-> done.self ]

\* No post_process called directly
NoPostCall ==
  [template |-> 0, fields |-> EmptyDict, n |-> 0, once |-> Returned(EmptyDict),
   again |-> Returned(EmptyDict)]

\* No validate called directly
NoValidateCall ==
  [template |-> 0, fields |-> EmptyDict, called |-> FALSE, errors |-> << >>,
   after |-> EmptyDict]

\* No engine called directly
NoEngineCall == [engine |-> "none", chat |-> ChatOk(EmptyResponse)]

\* DocumentProcessor.__init__: the processor is built, no document received.
Init ==
  /\ pc = "idle"
  /\ args = NoArgs
  /\ document_id = ""
  /\ elapsed = 0
  /\ document = NoDocument
  /\ text = << >>
  /\ images = 0
  /\ ocr_acc = NoOcrAcc
  /\ ocr_result = NoOcr
  /\ template = 0
  /\ llm_result = NoLlmResult
  /\ result = NoResult
  /\ caught = NoExc
  /\ calls = NoCalls
  /\ ocr_pipeline = OCRPipelineInit
  /\ llm_pipeline = LLMPipelineInit
  /\ ocr_call = NoOcrCall
  /\ llm_call = NoLlmCall
  /\ engine_call = NoEngineCall
  /\ post_call = NoPostCall
  /\ validate_call = NoValidateCall

\* "response.processing_time_ms = processing_time"
Timed(response, processing_time) ==
  [response EXCEPT !.processing_time_ms = processing_time]

\* A variant of Fail in which the exception leaves process_file;
\* C2_OneTerminalResult tells it from Fail.
Fail_Escapes(exc) ==
  /\ pc' = "raised"
  /\ elapsed' = elapsed + 1
  /\ caught' = exc
  /\ UNCHANGED result

\* The except clause of process_file: the failed result for exception exc.
Fail(exc) ==
  /\ pc' = "done"
  /\ elapsed' = elapsed + 1
  /\ caught' = exc
  /\ result' = ProcessingResult(document_id, FALSE,
                                FailedResponse(document_id, exc, elapsed + 1),
                                elapsed + 1)

\* The ways a caller gives the document: <<file_path, content>>; main.py,
\* tasks.py and ui.py pass content alone, and a path is used when both are
\* given.
Submissions ==
  { <<"path", "none">>, <<"path", "bytes">>, <<"none", "none">>, <<"none", "empty">>,
    <<"none", "bytes">> }

\* process_file is called: start_time and document_id are set.
Call ==
  /\ pc = "idle"
  /\ \E how \in Submissions, hint \in Hints :
       args' = [file_path |-> how[1], content |-> how[2], document_type_hint |-> hint]
  /\ pc' = "load"
  /\ document_id' = "uuid4"
  /\ elapsed' = 0
  /\ UNCHANGED << document, text, images, ocr_acc, ocr_result, template, llm_result,
                  result, caught, calls, ocr_pipeline, llm_pipeline,
                  ocr_call, llm_call, engine_call, post_call, validate_call >>

\* "Load document": load_from_path, load_from_bytes or the ValueError.
Load ==
  /\ pc = "load"
  /\ \E loaded \in
          IF args.file_path # "none"
          THEN {load_from_path(exists, file) : exists \in BOOLEAN, file \in Files}
          ELSE IF args.content = "bytes"
          THEN {load_from_bytes(file) : file \in {f \in Files : f.size > 0}}
          ELSE {Loaded(Message("Either file_path or content must be provided", << >>),
                       NoDocument)} :
       IF loaded.raised
       THEN Fail(loaded.exc) /\ UNCHANGED document
       ELSE /\ document' = loaded.document
            /\ pc' = "extract"
            /\ elapsed' = elapsed + 1
            /\ UNCHANGED << result, caught >>
  /\ UNCHANGED << args, document_id, text, images, ocr_acc, ocr_result, template,
                  llm_result, calls, ocr_pipeline, llm_pipeline,
                  ocr_call, llm_call, engine_call, post_call, validate_call >>

\* The texts of the pages of a PDF of n pages
RECURSIVE PageSeqs(_)
PageSeqs(n) ==
  IF n = 0 THEN { << >> }
  ELSE {Append(s, t) : s \in PageSeqs(n - 1), t \in PageTexts}

NewLines == << "\n", "\n" >>

\* A variant of NeedsOcr that runs OCR on every document with images,
\* whatever text it has; C24_OcrWhenNeeded tells it from NeedsOcr.
NeedsOcr_AnyText(txt, imgs) == imgs > 0

\* "if images and (not text or len(text.strip()) < 100)"
NeedsOcr(txt, imgs) == imgs > 0 /\ (txt = << >> \/ Len(py_strip(txt)) < min_text_length)

\* _extract_content, and the decision whether OCR is run on what it returns.
\* parsed tells whether the format parser returned or raised.
ExtractContent ==
  /\ pc = "extract"
  /\ \E parsed \in BOOLEAN, n \in 0..MaxPages, docx_text \in DocxTexts :
     \E pages \in PageSeqs(n) :
       LET parser == CASE document.document_type = "pdf" -> "pdf_parser"
                       [] document.document_type = "image" -> "image_parser"
                       [] OTHER -> "docx_parser"
           txt == CASE document.document_type = "pdf" -> py_join(NewLines, pages)
                    [] document.document_type = "image" -> << >>
                    [] OTHER -> docx_text
           imgs == CASE document.document_type = "pdf" -> Len(pages)
                     [] document.document_type = "image" -> 1
                     [] OTHER -> 0
       IN  /\ calls' = [calls EXCEPT ![parser] = @ + 1]
           /\ IF ~parsed
              THEN Fail(Message("parser error", << >>)) /\ UNCHANGED << text, images >>
              ELSE /\ text' = txt
                   /\ images' = imgs
                   /\ pc' = IF NeedsOcr(txt, imgs) THEN "ocr" ELSE "classify"
                   /\ elapsed' = elapsed + 1
                   /\ UNCHANGED << result, caught >>
  /\ UNCHANGED << args, document_id, document, ocr_acc, ocr_result, template, llm_result,
                  ocr_pipeline, llm_pipeline, ocr_call, llm_call, engine_call, post_call, validate_call >>

FracAdd(a, b) == [num |-> a.num * b.den + b.num * a.den, den |-> a.den * b.den]

\* One turn of the loop of _run_ocr: enhance the image, run the OCR
\* pipeline on it, add its text and confidence.
RunOcrImage ==
  /\ pc = "ocr"
  /\ ocr_acc.done < images
  /\ \E enhanced \in BOOLEAN,
        r \in {OCR_process(ocr_pipeline, primary_ctor_ok, primary_out,
                           fallback_ctor_ok, fallback_out) :
                 primary_ctor_ok \in BOOLEAN, primary_out \in OcrOutcomes,
                 fallback_ctor_ok \in BOOLEAN, fallback_out \in OcrFallbackOutcomes} :
           IF ~enhanced
           THEN /\ Fail(Message("enhance error", << >>))
                /\ calls' = [calls EXCEPT !.enhancer = @ + 1]
                /\ UNCHANGED << ocr_acc, ocr_pipeline >>
           ELSE /\ calls' = [calls EXCEPT !.enhancer = @ + 1,
                                          !.ocr_primary = @ + r.primary_calls,
                                          !.ocr_fallback = @ + r.fallback_calls]
                /\ ocr_pipeline' = r.self
                /\ IF r.out.raised
                   THEN Fail(r.out.exc) /\ UNCHANGED ocr_acc
                   ELSE /\ ocr_acc' =
                             [done |-> ocr_acc.done + 1,
                              all_text |-> Append(ocr_acc.all_text, r.out.full_text),
                              total_confidence |->
                                 FracAdd(ocr_acc.total_confidence, r.out.confidence)]
                        /\ elapsed' = elapsed + 1
                        /\ UNCHANGED << pc, result, caught >>
  /\ UNCHANGED << args, document_id, document, text, images, ocr_result, template,
                  llm_result, llm_pipeline, ocr_call, llm_call, engine_call, post_call, validate_call >>

\* _run_ocr returns the combined OCRResult, which becomes the text.
RunOcrReturn ==
  /\ pc = "ocr"
  /\ ocr_acc.done = images
  /\ ocr_result' = OCRResult(py_join(NewLines, ocr_acc.all_text),
                             [num |-> ocr_acc.total_confidence.num,
                              den |-> ocr_acc.total_confidence.den * images])
  /\ text' = ocr_result'.full_text
  /\ ocr_acc' = NoOcrAcc
  /\ pc' = "classify"
  /\ elapsed' = elapsed + 1
  /\ UNCHANGED << args, document_id, document, images, template, llm_result,
                  result, caught, calls, ocr_pipeline, llm_pipeline, ocr_call,
                  llm_call, engine_call, post_call, validate_call >>

\* "Classify document type"
Classify ==
  /\ pc = "classify"
  /\ \E chosen \in {classify_document(text, args.document_type_hint)} :
       template' = chosen
  /\ calls' = [calls EXCEPT !.classify = @ + classify_calls(args.document_type_hint)]
  /\ pc' = "llm"
  /\ elapsed' = elapsed + 1
  /\ UNCHANGED << args, document_id, document, text, images, ocr_acc, ocr_result,
                  llm_result, result, caught, ocr_pipeline, llm_pipeline,
                  ocr_call, llm_call, engine_call, post_call, validate_call >>

\* "Extract fields using LLM": llm_pipeline.extract with the template's
\* category and field names.
LlmExtract ==
  /\ pc = "llm"
  /\ \E r \in {LLM_extract(llm_pipeline, primary_out, fallback_ctor_ok, fallback_out,
                              fallback_retry_out) :
                    primary_out \in LlmOutcomes(templates[template]),
                    fallback_ctor_ok \in BOOLEAN,
                    fallback_out \in LlmFallbackOutcomes(templates[template]),
                    fallback_retry_out \in LlmFallbackOutcomes(templates[template])} :
           /\ calls' = [calls EXCEPT !.llm_primary = @ + r.primary_calls,
                                     !.llm_fallback = @ + r.fallback_calls]
           /\ llm_pipeline' = r.self
           /\ IF r.out.raised
              THEN Fail(r.out.exc) /\ UNCHANGED llm_result
              ELSE /\ llm_result' = r.out
                   /\ pc' = "build"
                   /\ elapsed' = elapsed + 1
                   /\ UNCHANGED << result, caught >>
  /\ UNCHANGED << args, document_id, document, text, images, ocr_acc, ocr_result,
                  template, ocr_pipeline, ocr_call, llm_call, engine_call, post_call, validate_call >>

\* "Build response", set its processing time and return the result.
BuildResponse ==
  /\ pc = "build"
  /\ \E built \in {build_response(document_id, templates[template], llm_result,
                                   ocr_result)} :
         IF built.raised
         THEN Fail(built.exc)
         ELSE /\ pc' = "done"
              /\ elapsed' = elapsed + 1
              /\ result' = ProcessingResult(document_id, TRUE,
                             Timed(built.response, elapsed + 1), elapsed + 1)
              /\ UNCHANGED caught
  /\ UNCHANGED << args, document_id, document, text, images, ocr_acc, ocr_result,
                  template, llm_result, calls, ocr_pipeline, llm_pipeline,
                  ocr_call, llm_call, engine_call, post_call, validate_call >>

Next ==
  \/ Call
  \/ Load
  \/ ExtractContent
  \/ RunOcrImage
  \/ RunOcrReturn
  \/ Classify
  \/ LlmExtract
  \/ BuildResponse

Spec == Init /\ [][Next]_vars

\* process_file is one synchronous call: each step it has started is taken.
FairSpec == Spec /\ WF_vars(Next)

----------------------------------------------------------------------------
(* _build_response on its own: process_file has classified the document   *)
(* and the LLM pipeline has answered.                                      *)

\* One text for each registered template, which classification maps to it
BuildTexts ==
  {TextUanPassport, TextAadhaar, TextPan, TextVoter, TextRtoGpa, TextTranscript,
   TextPassportCertificate, TextCertificate}

\* What _run_ocr returned when process_file reaches "Build response"
BuildOcrResults(txt) ==
  {NoOcr} \cup {OCRResult(txt, Tenths(c)) : c \in OcrConfidences \cup {ocr_discount_below}}

\* process_file stands before "Build response" for a DOCX document.
InitBuild ==
  /\ pc = "build"
  /\ args = [file_path |-> "none", content |-> "bytes", document_type_hint |-> "none"]
  /\ document_id = "uuid4"
  /\ elapsed = 4
  /\ document = [document_type |-> "docx", file_size |-> 1]
  /\ text \in BuildTexts
  /\ images = 0
  /\ ocr_acc = NoOcrAcc
  /\ ocr_result \in BuildOcrResults(text)
  /\ template = classify_document(text, "none")
  /\ llm_result \in {Ollama_extract(chat) : chat \in Chats(templates[template])}
  /\ result = NoResult
  /\ caught = NoExc
  /\ calls = [NoCalls EXCEPT !.docx_parser = 1, !.classify = classify_calls("none"),
                             !.llm_primary = 1]
  /\ ocr_pipeline = OCRPipelineInit
  /\ llm_pipeline = [LLMPipelineInit EXCEPT !.primary = TRUE, !.primary_initialized = TRUE]
  /\ ocr_call = NoOcrCall
  /\ llm_call = NoLlmCall
  /\ engine_call = NoEngineCall
  /\ post_call = NoPostCall
  /\ validate_call = NoValidateCall

NextBuild == BuildResponse

SpecBuild == InitBuild /\ [][NextBuild]_vars

----------------------------------------------------------------------------
(* _classify_document on its own: process_file has the text of a DOCX      *)
(* document and a type hint.                                               *)

InitClassify ==
  /\ pc = "classify"
  /\ \E hint \in Hints :
       args = [file_path |-> "none", content |-> "bytes", document_type_hint |-> hint]
  /\ document_id = "uuid4"
  /\ elapsed = 2
  /\ document = [document_type |-> "docx", file_size |-> 1]
  /\ text \in SampleTexts
  /\ images = 0
  /\ ocr_acc = NoOcrAcc
  /\ ocr_result = NoOcr
  /\ template = 0
  /\ llm_result = NoLlmResult
  /\ result = NoResult
  /\ caught = NoExc
  /\ calls = [NoCalls EXCEPT !.docx_parser = 1]
  /\ ocr_pipeline = OCRPipelineInit
  /\ llm_pipeline = LLMPipelineInit
  /\ ocr_call = NoOcrCall
  /\ llm_call = NoLlmCall
  /\ engine_call = NoEngineCall
  /\ post_call = NoPostCall
  /\ validate_call = NoValidateCall

NextClassify == Classify

SpecClassify == InitClassify /\ [][NextClassify]_vars

----------------------------------------------------------------------------
(* OCRPipeline.process on its own: the processor's pipeline is called on   *)
(* one image after another.                                                *)

\* The most calls made on a pipeline
MaxCalls == 3

\* What recognize() of the EasyOCR engine can do: raise, or return a text
\* with a confidence below, at or above the threshold
PrimaryOcrOutcomes ==
  {OcrRaise(Message("easyocr error", << >>))} \cup
  {OcrOk(TextRtoGpa, Tenths(c)) : c \in {0, 5, confidence_threshold, 9}}

\* What recognize() of the Tesseract engine can do
FallbackOcrOutcomes ==
  {OcrRaise(Message("tesseract error", << >>))} \cup
  {OcrOk(TextUanPassport, Tenths(c)) : c \in {3, 5, 9}}

\* The processor is built and does not process a document.
InitOcr == Init

\* ocr_pipeline.process(image)
OcrProcess ==
  /\ pc = "idle"
  /\ ocr_call.n < MaxCalls
  /\ \E r \in {OcrCall(ocr_call.n + 1, ocr_pipeline,
                       OCR_process(ocr_pipeline, primary_ctor_ok, primary_out,
                                   fallback_ctor_ok, fallback_out),
                       primary_out, fallback_out) :
                 primary_ctor_ok \in BOOLEAN, primary_out \in PrimaryOcrOutcomes,
                 fallback_ctor_ok \in BOOLEAN, fallback_out \in FallbackOcrOutcomes} :
       /\ ocr_call' = r
       /\ ocr_pipeline' = r.after
       /\ calls' = [calls EXCEPT !.ocr_primary = @ + r.primary_calls,
                                 !.ocr_fallback = @ + r.fallback_calls]
  /\ UNCHANGED << pc, args, document_id, elapsed, document, text, images, ocr_acc,
                  ocr_result, template, llm_result, result, caught, llm_pipeline,
                  llm_call, engine_call, post_call, validate_call >>

NextOcr == OcrProcess

SpecOcr == InitOcr /\ [][NextOcr]_vars

----------------------------------------------------------------------------
(* LLMPipeline.extract on its own: a pipeline of two engines is called on  *)
(* one text after another.                                                 *)

\* An answer of two fields with the confidences c1 and c2 (tenths)
Answer(c1, c2) ==
  [k \in {"full_name", "date_of_birth"} |->
     ObjectEntry(Str(<<"A", "b">>), IF k = "full_name" THEN c1 ELSE c2)]

\* What extract() of the primary engine can do: raise (an engine that does
\* not catch its own errors), fail, or succeed with no field or with a mean
\* confidence below (0.5), at (0.8) or above (0.9) the threshold
PrimaryLlmOutcomes ==
  {LlmRaise(Message("primary error", << >>))} \cup
  {Ollama_extract(chat) :
     chat \in {ChatRaise(EngineError), ChatOk(TextResponse), ChatOk(JsonResponse(NoEntries)),
               ChatOk(JsonResponse(Answer(3, 7))), ChatOk(JsonResponse(Answer(7, 9))),
               ChatOk(JsonResponse(Answer(9, 9)))}}

\* What extract() of the fallback engine can do: raise, fail, or succeed
\* with a mean confidence of 0.2, 0.5 or 0.9
FallbackLlmOutcomes ==
  {LlmRaise(Message("fallback error", << >>))} \cup
  {Gemini_extract(chat) :
     chat \in {ChatOk(TextResponse), ChatOk(JsonResponse(Answer(1, 3))),
               ChatOk(JsonResponse(Answer(7, 3))), ChatOk(JsonResponse(Answer(9, 9)))}}

\* A pipeline is built, with or without fallback on low confidence.
InitLlm ==
  /\ pc = "idle"
  /\ args = NoArgs
  /\ document_id = ""
  /\ elapsed = 0
  /\ document = NoDocument
  /\ text = << >>
  /\ images = 0
  /\ ocr_acc = NoOcrAcc
  /\ ocr_result = NoOcr
  /\ template = 0
  /\ llm_result = NoLlmResult
  /\ result = NoResult
  /\ caught = NoExc
  /\ calls = NoCalls
  /\ ocr_pipeline = OCRPipelineInit
  /\ \E flag \in BOOLEAN :
       llm_pipeline = [LLMPipelineInit EXCEPT !.use_fallback_on_low_confidence = flag]
  /\ ocr_call = NoOcrCall
  /\ llm_call = NoLlmCall
  /\ engine_call = NoEngineCall
  /\ post_call = NoPostCall
  /\ validate_call = NoValidateCall

\* llm_pipeline.extract(text, document_type, expected_fields)
LlmPipelineExtract ==
  /\ pc = "idle"
  /\ llm_call.n < MaxCalls
  /\ \E r \in {LlmCall(llm_call.n + 1, llm_pipeline,
                       LLM_extract(llm_pipeline, primary_out, fallback_ctor_ok,
                                   fallback_out, fallback_retry_out),
                       primary_out, fallback_out, fallback_retry_out) :
                 primary_out \in PrimaryLlmOutcomes, fallback_ctor_ok \in BOOLEAN,
                 fallback_out \in FallbackLlmOutcomes,
                 fallback_retry_out \in FallbackLlmOutcomes} :
       /\ llm_call' = r
       /\ llm_pipeline' = r.after
       /\ calls' = [calls EXCEPT !.llm_primary = @ + r.primary_calls,
                                 !.llm_fallback = @ + r.fallback_calls]
  /\ UNCHANGED << pc, args, document_id, elapsed, document, text, images, ocr_acc,
                  ocr_result, template, llm_result, result, caught, ocr_pipeline,
                  ocr_call, engine_call, post_call, validate_call >>

NextLlm == LlmPipelineExtract

SpecLlm == InitLlm /\ [][NextLlm]_vars

-----------------------------------------------------------------------------
(* A pipeline of either kind on its own: the OCRPipeline or the            *)
(* LLMPipeline is called on one input after another.  The two share no     *)
(* state, so a behaviour follows one of them.                              *)

InitPipelines == InitLlm

NextPipelines ==
  \/ llm_call.n = 0 /\ OcrProcess
  \/ ocr_call.n = 0 /\ LlmPipelineExtract

SpecPipelines == InitPipelines /\ [][NextPipelines]_vars

----------------------------------------------------------------------------
(* An LLM engine's extract on its own: the engine is called once, on a     *)
(* text for which its model's chat call raises or answers.                 *)

\* The template whose field names the engine is asked for
EngineTemplate == TranscriptTemplate

\* What the chat call can do: raise, answer with a well-formed response, or
\* with a malformed one
EngineChats ==
  {ChatRaise(EngineError)}
    \cup {ChatOk(r) : r \in {EmptyResponse, TextResponse, BrokenResponse, NoFieldsResponse,
                             FieldsListResponse}}
    \cup {ChatOk(JsonResponse(f)) : f \in FieldSets(EngineTemplate)}
    \cup {ChatOk(BadConfidenceResponse(f)) : f \in FieldSets(EngineTemplate) \ {NoEntries}}

\* An engine is about to be called.
InitEngine ==
  /\ pc = "idle"
  /\ args = NoArgs
  /\ document_id = ""
  /\ elapsed = 0
  /\ document = NoDocument
  /\ text = << >>
  /\ images = 0
  /\ ocr_acc = NoOcrAcc
  /\ ocr_result = NoOcr
  /\ template = 0
  /\ llm_result = NoLlmResult
  /\ result = NoResult
  /\ caught = NoExc
  /\ calls = NoCalls
  /\ ocr_pipeline = OCRPipelineInit
  /\ llm_pipeline = LLMPipelineInit
  /\ ocr_call = NoOcrCall
  /\ llm_call = NoLlmCall
  /\ \E engine \in {"ollama", "gemini"}, chat \in EngineChats :
       engine_call = [engine |-> engine, chat |-> chat]
  /\ post_call = NoPostCall
  /\ validate_call = NoValidateCall

\* OllamaExtractor.extract or GeminiExtractor.extract, called once
EngineExtractCall ==
  /\ pc = "idle"
  /\ engine_call.engine # "none"
  /\ calls.llm_primary + calls.llm_fallback = 0
  /\ IF engine_call.engine = "ollama"
     THEN /\ llm_result' = Ollama_extract(engine_call.chat)
          /\ calls' = [calls EXCEPT !.llm_primary = 1]
     ELSE /\ llm_result' = Gemini_extract(engine_call.chat)
          /\ calls' = [calls EXCEPT !.llm_fallback = 1]
  /\ UNCHANGED << pc, args, document_id, elapsed, document, text, images, ocr_acc,
                  ocr_result, template, result, caught, ocr_pipeline, llm_pipeline,
                  ocr_call, llm_call, engine_call, post_call, validate_call >>

NextEngine == EngineExtractCall

SpecEngine == InitEngine /\ [][NextEngine]_vars

----------------------------------------------------------------------------
(* A template's post_process on its own: it is called on a field mapping   *)
(* and then on the mapping it returned.                                    *)

\* "Certificate for Certificate of Ab"
TitleTwoPrefixes ==
  <<"C","e","r","t","i","f","i","c","a","t","e"," ","f","o","r"," ">>
    \o <<"C","e","r","t","i","f","i","c","a","t","e"," ","o","f"," ","A","b">>

\* Values of the fields post_process and validate are called on: those an
\* LLM returns, a blank, a title that begins with two prefixes, a number
\* written with a thousands separator
PostValues ==
  SampleValues \cup {Str(<<" ">>), Str(TitleTwoPrefixes), Str(<<"1", ",", "5">>)}

\* The field mappings that differ from one of `base` in at most n keys
RECURSIVE EditedFields(_, _, _)
EditedFields(T, base, n) ==
  IF n = 0 THEN base
  ELSE LET prev == EditedFields(T, base, n - 1)
       IN  prev \cup {Put(d, k, v) : d \in prev, k \in EditNames(T), v \in PostValues}

\* The field mappings drawn for template T: around the empty mapping and
\* around the one with every required field
PostFieldSets(T) ==
  EditedFields(T, {EmptyDict, [k \in required_fields(T) |-> Str(<<"A", "b">>)]}, MaxEdits)

InitPost ==
  /\ pc = "idle"
  /\ args = NoArgs
  /\ document_id = ""
  /\ elapsed = 0
  /\ document = NoDocument
  /\ text = << >>
  /\ images = 0
  /\ ocr_acc = NoOcrAcc
  /\ ocr_result = NoOcr
  /\ template = 0
  /\ llm_result = NoLlmResult
  /\ result = NoResult
  /\ caught = NoExc
  /\ calls = NoCalls
  /\ ocr_pipeline = OCRPipelineInit
  /\ llm_pipeline = LLMPipelineInit
  /\ ocr_call = NoOcrCall
  /\ llm_call = NoLlmCall
  /\ engine_call = NoEngineCall
  /\ \E i \in 1..Len(templates) : \E fields \in PostFieldSets(templates[i]) :
       post_call = [NoPostCall EXCEPT !.template = i, !.fields = fields]
  /\ validate_call = NoValidateCall

\* template.post_process(fields), then post_process of what it returned
PostProcess ==
  /\ pc = "idle"
  /\ post_call.template # 0
  /\ \/ /\ post_call.n = 0
        /\ \E r \in {post_process(templates[post_call.template], post_call.fields)} :
             post_call' = [post_call EXCEPT !.n = 1, !.once = r]
     \/ /\ post_call.n = 1
        /\ ~post_call.once.raised
        /\ \E r \in {post_process(templates[post_call.template], post_call.once.fields)} :
             post_call' = [post_call EXCEPT !.n = 2, !.again = r]
  /\ UNCHANGED << pc, args, document_id, elapsed, document, text, images, ocr_acc,
                  ocr_result, template, llm_result, result, caught, calls, ocr_pipeline,
                  llm_pipeline, ocr_call, llm_call, engine_call, validate_call >>

NextPost == PostProcess

SpecPost == InitPost /\ [][NextPost]_vars

-----------------------------------------------------------------------------
(* validate of a template on its own: it is called once on a mapping of    *)
(* fields.                                                                 *)

InitValidate ==
  /\ pc = "idle"
  /\ args = NoArgs
  /\ document_id = ""
  /\ elapsed = 0
  /\ document = NoDocument
  /\ text = << >>
  /\ images = 0
  /\ ocr_acc = NoOcrAcc
  /\ ocr_result = NoOcr
  /\ template = 0
  /\ llm_result = NoLlmResult
  /\ result = NoResult
  /\ caught = NoExc
  /\ calls = NoCalls
  /\ ocr_pipeline = OCRPipelineInit
  /\ llm_pipeline = LLMPipelineInit
  /\ ocr_call = NoOcrCall
  /\ llm_call = NoLlmCall
  /\ engine_call = NoEngineCall
  /\ post_call = NoPostCall
  /\ \E i \in 1..Len(templates) : \E fields \in PostFieldSets(templates[i]) :
       validate_call = [NoValidateCall EXCEPT !.template = i, !.fields = fields,
                                              !.after = fields]

\* template.validate(fields): it reads the mapping and returns the messages.
Validate ==
  /\ pc = "idle"
  /\ validate_call.template # 0
  /\ ~validate_call.called
  /\ \E errors \in {validate(templates[validate_call.template], validate_call.fields)} :
       validate_call' = [validate_call EXCEPT !.called = TRUE, !.errors = errors]
  /\ UNCHANGED << pc, args, document_id, elapsed, document, text, images, ocr_acc,
                  ocr_result, template, llm_result, result, caught, calls, ocr_pipeline,
                  llm_pipeline, ocr_call, llm_call, engine_call, post_call >>

NextValidate == Validate

SpecValidate == InitValidate /\ [][NextValidate]_vars
----------------------------------------------------------------------------
(* Properties                                                              *)

\* Where process_file has returned
Done == pc = "done"

Terminal == {"completed", "requires_review", "failed"}

\* C1: _build_response assigns the status by strict priority: an
\* unsuccessful LLM result gives failed with one LLM_ERROR, whatever the
\* validation errors and the confidence; otherwise any validation error
\* gives requires_review with one VALIDATION_ERROR for each; otherwise an
\* overall confidence below the threshold gives requires_review with one
\* LOW_CONFIDENCE; otherwise the status is completed, with no error.
C1_StatusPriority ==
  (Done /\ result.success) =>
    LET r == result.response
        verrs == validate(templates[template], r.extracted_data)
    IN  IF ~llm_result.success
        THEN /\ r.status = "failed"
             /\ r.errors = << ExtractionError("LLM_ERROR", llm_result.error) >>
        ELSE IF verrs # << >>
        THEN /\ r.status = "requires_review"
             /\ Len(r.errors) = Len(verrs)
             /\ \A i \in 1..Len(verrs) :
                  r.errors[i] = ExtractionError("VALIDATION_ERROR", verrs[i])
        ELSE IF FracLT(r.overall_confidence, Tenths(confidence_threshold))
        THEN /\ r.status = "requires_review"
             /\ Len(r.errors) = 1
             /\ r.errors[1].code = "LOW_CONFIDENCE"
        ELSE /\ r.status = "completed"
             /\ r.errors = << >>

\* A response for an unsuccessful LLM result to which validation errors and
\* a low confidence apply as well
C1_Witness ==
  /\ Done /\ result.success
  /\ ~llm_result.success
  /\ validate(templates[template], result.response.extracted_data) # << >>
  /\ FracLT(result.response.overall_confidence, Tenths(confidence_threshold))
  /\ result.response.status = "failed"

\* C2: every call of process_file ends, in a bounded number of steps and
\* whatever the loader, the parsers, the OCR and the LLM engines do, with
\* one ProcessingResult whose response status is completed, requires_review
\* or failed; no exception leaves process_file.
C2_OneTerminalResult ==
  /\ pc \in {"idle", "load", "extract", "ocr", "classify", "llm", "build", "done"}
  /\ elapsed <= 6 + MaxPages
  /\ Done => /\ result.response.status \in Terminal
             /\ result.document_id = document_id
             /\ ~ENABLED Next
  /\ ~Done => /\ result = NoResult
              /\ ENABLED Next

\* A call in which the fallback LLM engine raised twice and which still
\* returned a result
C2_Witness ==
  /\ Done
  /\ calls.llm_fallback = 2
  /\ caught # NoExc
  /\ result.response.status = "failed"

\* C2, as a property of the fair behaviours: a call that was made returns.
C2_Returns == (pc = "load") ~> Done

\* C3: when a step of process_file raises, the response has status failed
\* and exactly one error, of code PROCESSING_ERROR, carrying the
\* exception's message; every result, of a success or of a failure,
\* carries the document id and a processing time.
C3_ExceptionBecomesFailed ==
  Done =>
    /\ (caught # NoExc) = ~result.success
    /\ caught # NoExc =>
         /\ result.response.status = "failed"
         /\ result.response.errors = << ExtractionError("PROCESSING_ERROR", caught) >>
    /\ result.document_id = document_id /\ document_id # ""
    /\ result.response.document_id = document_id
    /\ result.processing_time_ms # NoTime /\ result.processing_time_ms >= 0
    /\ result.response.processing_time_ms = result.processing_time_ms

\* A call that failed in its last step, the construction of the response
C3_Witness ==
  /\ Done
  /\ calls.llm_primary = 1
  /\ caught = Message("1 validation error for ExtractionResponse: overall_confidence", << >>)
  /\ result.response.status = "failed"








\* The fields the LLM returned all have a null value, and there is one
AllNull ==
  /\ llm_result.success
  /\ DOMAIN llm_result.fields # {}
  /\ \A k \in DOMAIN llm_result.fields : llm_result.fields[k].value = Null

HasError(response, code) ==
  \E i \in 1..Len(response.errors) : response.errors[i].code = code

\* C4, as stated: when the LLM succeeds and every field it returns is null,
\* the response has overall_confidence 0.0 and status requires_review with a
\* LOW_CONFIDENCE error, for every registered template.
C4_AsStated ==
  (Done /\ AllNull) =>
    /\ result.success
    /\ result.response.overall_confidence.num = 0
    /\ result.response.status = "requires_review"
    /\ HasError(result.response, "LOW_CONFIDENCE")

\* C4, amended: when the LLM succeeds and every field it returns is null,
\* the response has overall_confidence 0.0 and status requires_review; every
\* registered template has a required field that is then missing, so the
\* errors are the VALIDATION_ERRORs of validate, and there is no
\* LOW_CONFIDENCE error.
C4_AllNullFields ==
  (Done /\ AllNull) =>
    /\ result.success
    /\ result.response.overall_confidence.num = 0
    /\ result.response.status = "requires_review"
    /\ result.response.requires_review
    /\ result.response.errors # << >>
    /\ \A i \in 1..Len(result.response.errors) :
         result.response.errors[i].code = "VALIDATION_ERROR"
    /\ \E f \in required_fields(templates[template]) :
         ~Present(result.response.extracted_data, f)

\* A response to an LLM answer whose fields are all null, one of them with a
\* confidence above 0
C4_Witness ==
  /\ Done /\ AllNull
  /\ \E k \in DOMAIN llm_result.fields : llm_result.fields[k].confidence > 0
  /\ result.response.status = "requires_review"

\* C5: every key of extracted_data in a response is a key of its
\* field_confidences.
C5_AsStated ==
  Done =>
    \A k \in DOMAIN result.response.extracted_data :
      k \in DOMAIN result.response.field_confidences

\* A confidence (tenths) in [0.0, 1.0]
InUnit(c) == 0 <= c /\ c <= 10

\* C6: every confidence in field_confidences of a response, and in every
\* ExtractionResult the LLM pipeline returned, is in [0.0, 1.0].
C6_AsStated ==
  Done =>
    /\ \A k \in DOMAIN result.response.field_confidences :
         InUnit(result.response.field_confidences[k])
    /\ \A k \in DOMAIN llm_result.fields : InUnit(llm_result.fields[k].confidence)

\* llm_result with the confidence of field k set to c
WithConfidence(res, k, c) == [res EXCEPT !.fields[k].confidence = c]

\* C7: overall_confidence of every response is in [0.0, 1.0], and a field
\* whose post-processed value is null contributes nothing to it: whatever
\* confidence the LLM states for such a field, the overall confidence is
\* the same.
C7_OverallConfidence ==
  Done =>
    /\ 0 <= result.response.overall_confidence.num
    /\ result.response.overall_confidence.num <= result.response.overall_confidence.den
    /\ result.success =>
         \A k \in DOMAIN llm_result.fields :
           Get(result.response.extracted_data, k) = Null =>
             \A c \in SampleConfidences :
               FracEQ(OverallConfidence(WithConfidence(llm_result, k, c),
                                        result.response.extracted_data, ocr_result),
                      result.response.overall_confidence)

\* A response with a confidence above 0 that was built from a null field of
\* confidence above 0 and a field that is not null
C7_Witness ==
  /\ Done /\ result.success
  /\ result.response.overall_confidence.num > 0
  /\ \E k \in DOMAIN llm_result.fields :
       /\ Get(result.response.extracted_data, k) = Null
       /\ llm_result.fields[k].confidence > 0

\* The required fields of T that fields (post-processed) lack: missing,
\* null or the empty string
LackingRequired(T, fields) ==
  {i \in 1..Len(T.field_definitions) :
     /\ T.field_definitions[i].required
     /\ Get(fields, T.field_definitions[i].name) \in {Null, Str(<< >>)}}

\* C8: when the LLM succeeds and a required field of the template is
\* missing, null or the empty string after post-processing, the response has
\* status requires_review and a VALIDATION_ERROR whose message names the
\* field's display name.
C8_AsStated ==
  LET T == templates[template]
      processed == post_process(T, [k \in DOMAIN llm_result.fields |->
                                      llm_result.fields[k].value])
  IN  (Done /\ llm_result.success /\ ~processed.raised) =>
        \A i \in LackingRequired(T, processed.fields) :
          /\ result.response.status = "requires_review"
          /\ \E j \in 1..Len(result.response.errors) :
               /\ result.response.errors[j].code = "VALIDATION_ERROR"
               /\ result.response.errors[j].message.args
                    = << T.field_definitions[i].display_name >>

\* The statement of C8 holds of the answers whose confidences are all in
\* [0.0, 1.0]: it fails only through the confidences that are not.
C8_WhenConfidencesInUnit ==
  (\A k \in DOMAIN llm_result.fields : InUnit(llm_result.fields[k].confidence))
    => C8_AsStated

\* C9: an empty byte buffer given as the content is rejected: the call
\* returns a failed response and no parser, OCR engine or LLM engine is
\* called, and the loader raises for every empty file, so that whatever is
\* handed to a parser or an engine is not empty.
C9_EmptyContentRejected ==
  /\ (Done /\ args.file_path = "none" /\ args.content = "empty") =>
       /\ ~result.success
       /\ result.response.status = "failed"
       /\ result.response.extracted_data = EmptyDict
       /\ calls = NoCalls
  /\ \A file \in Files :
       file.size = 0 => load_from_bytes(file).raised
  /\ calls # NoCalls => document.file_size > 0

\* A call with an empty byte buffer that has returned
C9_Witness ==
  /\ Done
  /\ args.file_path = "none" /\ args.content = "empty"
  /\ result.response.status = "failed"
  /\ calls = NoCalls

\* The classify score of the i-th registered template on the text
ScoreOf(i) == classify(templates[i], text)

\* C10: without a type hint, _classify_document returns a template whose
\* classify score is the greatest over the registered templates, and of the
\* templates with that score the one registered first.
C10_BestScoreEarliest ==
  (pc = "llm" /\ args.document_type_hint = "none") =>
    /\ template \in 1..Len(templates)
    /\ \A i \in 1..Len(templates) :
         /\ FracGE(ScoreOf(template), ScoreOf(i))
         /\ FracEQ(ScoreOf(i), ScoreOf(template)) => template <= i

\* A classification without hint in which two templates share the greatest
\* score, which is above 0
C10_Witness ==
  /\ pc = "llm" /\ args.document_type_hint = "none"
  /\ ScoreOf(template).num > 0
  /\ \E i \in 1..Len(templates) :
       i # template /\ FracEQ(ScoreOf(i), ScoreOf(template))

----------------------------------------------------------------------------
(* The type hint                                                           *)

\* The templates of the hinted category
OfHintedCategory == {i \in 1..Len(templates) : templates[i].category = args.document_type_hint}

\* C11 as stated: whenever a type hint is supplied, whatever its value, no
\* template's classify is called and the template returned is the first
\* registered one of the hinted category.
C11_AsStated ==
  (pc = "llm" /\ args.document_type_hint # "none") =>
    /\ calls.classify = 0
    /\ template \in OfHintedCategory
    /\ \A i \in OfHintedCategory : template <= i

\* C11: for a type hint whose category a registered template has, no
\* template's classify is called and the first registered template of that
\* category is returned; for the hint "unknown", the category of no
\* registered template, every template is scored and the result is the one
\* of a call without hint.
C11_HintBypassesScoring ==
  (pc = "llm" /\ args.document_type_hint # "none") =>
    IF OfHintedCategory # {}
    THEN /\ calls.classify = 0
         /\ template \in OfHintedCategory
         /\ \A i \in OfHintedCategory : template <= i
    ELSE /\ args.document_type_hint = "unknown"
         /\ calls.classify = Len(templates)
         /\ template = ClassifyLoop(text, 1, 1, Zero)

\* A hinted classification that returns another template than scoring the
\* text would have
C11_Witness ==
  /\ pc = "llm"
  /\ args.document_type_hint = "certificate"
  /\ calls.classify = 0
  /\ templates[template].name = "CertificateTemplate"
  /\ ClassifyLoop(text, 1, 1, Zero) # template

----------------------------------------------------------------------------
(* The OCR pipeline                                                        *)

\* A call of ocr_pipeline.process has been made and is the one recorded.
OcrCalled == ocr_call.n > 0

\* The call ran _ensure_fallback for the first time: the fallback engine's
\* constructor was called in it.
OcrConstructsFallback ==
  ~ocr_call.before.fallback_initialized /\ ocr_pipeline.fallback_initialized

\* The primary engine returned a result of confidence below the threshold.
OcrLowConfidence ==
  /\ ocr_call.primary_calls = 1
  /\ ~ocr_call.primary_out.raised
  /\ ocr_call.primary_out.confidence.num * 10
       < confidence_threshold * ocr_call.primary_out.confidence.den

\* The primary engine's recognize() raised.
OcrPrimaryRaised == ocr_call.primary_calls = 1 /\ ocr_call.primary_out.raised

\* C12 as stated: the fallback engine is constructed and called only when
\* the primary engine returned a result of confidence below the threshold.
C12_AsStated ==
  (OcrCalled /\ (ocr_call.fallback_calls > 0 \/ OcrConstructsFallback)) => OcrLowConfidence

\* C12: the fallback engine is constructed and called only when the primary
\* engine returned a result of confidence below the threshold or its
\* recognize() raised; a primary result of confidence at or above the
\* threshold is returned with no fallback call and the fallback's slots of
\* the pipeline untouched.
C12_FallbackOnlyWhenNeeded ==
  OcrCalled =>
    /\ (ocr_call.fallback_calls > 0 \/ OcrConstructsFallback) =>
         (OcrLowConfidence \/ OcrPrimaryRaised)
    /\ (ocr_call.primary_calls = 1 /\ ~OcrLowConfidence /\ ~OcrPrimaryRaised) =>
         /\ ocr_call.out = ocr_call.primary_out
         /\ ocr_call.fallback_calls = 0
         /\ ocr_pipeline.fallback_initialized = ocr_call.before.fallback_initialized
         /\ ocr_pipeline.fallback_engine = ocr_call.before.fallback_engine
         /\ ocr_pipeline.fallback_available = ocr_call.before.fallback_available

\* A first call in which the primary result is exactly at the threshold
C12_Witness ==
  /\ ocr_call.n = 1
  /\ ocr_call.primary_out = OcrOk(TextRtoGpa, Tenths(confidence_threshold))
  /\ ocr_call.out = ocr_call.primary_out
  /\ ocr_call.fallback_calls = 0
  /\ ~ocr_pipeline.fallback_initialized

\* Both engines' recognize() were called and returned a result.
OcrBothReturned ==
  /\ ocr_call.primary_calls = 1 /\ ocr_call.fallback_calls = 1
  /\ ~ocr_call.primary_out.raised /\ ~ocr_call.fallback_out.raised

\* C13: when the primary confidence is below the threshold and both engines
\* return a result, process returns the fallback result if its confidence
\* is strictly the higher, and the primary result otherwise, equal
\* confidences included.
C13_HigherConfidenceWins ==
  (OcrCalled /\ OcrBothReturned) =>
    /\ OcrLowConfidence
    /\ ocr_call.out =
         IF FracGT(ocr_call.fallback_out.confidence, ocr_call.primary_out.confidence)
         THEN ocr_call.fallback_out
         ELSE ocr_call.primary_out
    /\ FracGE(ocr_call.out.confidence, ocr_call.primary_out.confidence)
    /\ FracGE(ocr_call.out.confidence, ocr_call.fallback_out.confidence)

\* Both engines return results of equal confidence below the threshold and
\* the primary's is returned
C13_Witness ==
  /\ OcrCalled /\ OcrBothReturned
  /\ FracEQ(ocr_call.primary_out.confidence, ocr_call.fallback_out.confidence)
  /\ ocr_call.primary_out # ocr_call.fallback_out
  /\ ocr_call.out = ocr_call.primary_out

\* The fallback engine could not be constructed: in this call or an earlier
\* one TesseractEngine() raised.
OcrFallbackUnavailable == ~ocr_pipeline.fallback_available

\* C14 as stated: process returns a result or raises, and raises only when
\* the primary engine failed and the fallback engine failed or is not to be
\* had; when the primary recognize() raises and the fallback is there, the
\* fallback's result is returned or, if it raises too, one error naming
\* both causes; a low-confidence primary result is returned when the
\* fallback raises.
C14_AsStated ==
  OcrCalled =>
    /\ ocr_call.out.raised =>
         /\ OcrPrimaryRaised
         /\ (ocr_call.fallback_calls = 1 /\ ocr_call.fallback_out.raised)
              \/ OcrFallbackUnavailable
    /\ (OcrPrimaryRaised /\ ~OcrFallbackUnavailable) =>
         /\ ocr_call.fallback_calls = 1
         /\ IF ocr_call.fallback_out.raised
            THEN ocr_call.out =
                   OcrRaise(Message("Both OCR engines failed. Primary: {}, Fallback: {}",
                                    << ocr_call.primary_out.exc.fmt,
                                       ocr_call.fallback_out.exc.fmt >>))
            ELSE ocr_call.out = ocr_call.fallback_out
    /\ (OcrLowConfidence /\ ocr_call.fallback_calls = 1 /\ ocr_call.fallback_out.raised) =>
         ocr_call.out = ocr_call.primary_out

\* What C14 states, for the calls in which the primary engine is there or
\* can be constructed.
C14_WhenPrimaryConstructed ==
  (OcrCalled /\ ocr_call.primary_calls = 1) => C14_AsStated

\* C15: when the fallback engine cannot be constructed, process does what a
\* pipeline of the primary engine alone does: the fallback is not called,
\* a primary result is returned as it is whatever its confidence, and an
\* error is raised only for a failure of the primary engine.
C15_UnavailableIsNoFallback ==
  (OcrCalled /\ OcrFallbackUnavailable) =>
    /\ ocr_call.fallback_calls = 0
    /\ ~ocr_pipeline.fallback_engine
    /\ (ocr_call.primary_calls = 1 /\ ~ocr_call.primary_out.raised) =>
         ocr_call.out = ocr_call.primary_out
    /\ OcrPrimaryRaised =>
         ocr_call.out = OcrRaise(Message("OCR failed: {}", << ocr_call.primary_out.exc.fmt >>))
    /\ ocr_call.out.raised => (OcrPrimaryRaised \/ ocr_call.primary_calls = 0)

\* The call that finds the fallback engine missing returns a primary
\* result of confidence below the threshold
C15_Witness ==
  /\ OcrCalled /\ OcrFallbackUnavailable
  /\ OcrConstructsFallback
  /\ OcrLowConfidence
  /\ ocr_call.out = ocr_call.primary_out

----------------------------------------------------------------------------
(* The LLM pipeline                                                        *)

\* A call of llm_pipeline.extract has been made and is the one recorded.
LlmCalled == llm_call.n > 0

\* The call ran _ensure_fallback for the first time.
LlmConstructsFallback ==
  ~llm_call.before.fallback_initialized /\ llm_pipeline.fallback_initialized

\* The primary's extract() raised / returned an unsuccessful result /
\* returned a successful one.
LlmPrimaryRaised == llm_call.primary_calls = 1 /\ llm_call.primary_out.raised

LlmPrimaryUnsuccessful ==
  llm_call.primary_calls = 1 /\ ~llm_call.primary_out.raised /\ ~llm_call.primary_out.success

LlmPrimarySuccessful ==
  llm_call.primary_calls = 1 /\ ~llm_call.primary_out.raised /\ llm_call.primary_out.success

\* The mean of the field confidences of a result, 0.0 for no field
MeanOf(r) ==
  IF DOMAIN r.fields = {} THEN Zero
  ELSE [num |-> SumConfidence([k \in DOMAIN r.fields |-> r.fields[k].confidence],
                              DOMAIN r.fields),
        den |-> 10 * Cardinality(DOMAIN r.fields)]

\* mean < threshold
BelowThreshold(mean) == mean.num * 10 < confidence_threshold * mean.den

\* C16: the fallback engine is constructed or called only if the primary
\* result is successful with a mean confidence below the threshold and
\* fallback on low confidence is enabled, or the primary result is
\* unsuccessful, or the primary call raised; a successful primary result of
\* mean confidence at or above the threshold is returned as it is with the
\* fallback neither constructed nor called.
C16_FallbackOnlyWhenNeeded ==
  LlmCalled =>
    /\ (llm_call.fallback_calls > 0 \/ LlmConstructsFallback) =>
         \/ /\ LlmPrimarySuccessful
            /\ BelowThreshold(MeanOf(llm_call.primary_out))
            /\ llm_call.before.use_fallback_on_low_confidence
         \/ LlmPrimaryUnsuccessful
         \/ LlmPrimaryRaised
    /\ (LlmPrimarySuccessful /\ ~BelowThreshold(MeanOf(llm_call.primary_out))) =>
         /\ llm_call.out = llm_call.primary_out
         /\ llm_call.fallback_calls = 0
         /\ llm_pipeline.fallback = llm_call.before.fallback
         /\ llm_pipeline.fallback_initialized = llm_call.before.fallback_initialized

\* A first call whose primary result has a mean confidence exactly at the
\* threshold, on a pipeline with fallback on low confidence enabled
C16_Witness ==
  /\ llm_call.n = 1
  /\ llm_call.before.use_fallback_on_low_confidence
  /\ LlmPrimarySuccessful
  /\ FracEQ(MeanOf(llm_call.primary_out), Tenths(confidence_threshold))
  /\ llm_call.out = llm_call.primary_out
  /\ ~llm_pipeline.fallback_initialized

\* C17 as stated: whenever the primary result is successful, extract
\* returns a result whose mean confidence is at least the primary's, and it
\* is another result than the primary's only if that one is successful with
\* a strictly higher mean confidence.
C17_AsStated ==
  (LlmCalled /\ LlmPrimarySuccessful) =>
    /\ ~llm_call.out.raised
    /\ FracGE(MeanOf(llm_call.out), MeanOf(llm_call.primary_out))
    /\ llm_call.out # llm_call.primary_out =>
         /\ llm_call.out.success
         /\ FracGT(MeanOf(llm_call.out), MeanOf(llm_call.primary_out))

\* What C17 states, for the calls in which no call of the fallback engine
\* raises.
C17_WhenFallbackReturns ==
  (LlmCalled /\ ~(llm_call.fallback_calls > 0 /\ llm_call.fallback_out.raised)) =>
     C17_AsStated

\* The outcome of the last call of the fallback engine made in the call
LastFallbackOutcome ==
  IF llm_call.fallback_calls = 2 THEN llm_call.fallback_retry_out ELSE llm_call.fallback_out

\* C18: if the primary call raises or returns an unsuccessful result, then,
\* whether fallback on low confidence is enabled or not, with a fallback
\* engine to be had it is called and what extract gives is what the
\* fallback gave; with none, extract returns an unsuccessful result, the
\* primary's if the primary returned one.
C18_FailedPrimaryTriesFallback ==
  (LlmCalled /\ (LlmPrimaryRaised \/ LlmPrimaryUnsuccessful)) =>
    IF llm_pipeline.fallback
    THEN /\ llm_call.fallback_calls >= 1
         /\ llm_call.out = LastFallbackOutcome
    ELSE /\ llm_call.fallback_calls = 0
         /\ ~llm_call.out.raised
         /\ ~llm_call.out.success
         /\ LlmPrimaryUnsuccessful => llm_call.out = llm_call.primary_out
         /\ LlmPrimaryRaised =>
              llm_call.out.error =
                Message("All extractors failed: {}", << llm_call.primary_out.exc.fmt >>)

\* A failed primary on a pipeline without fallback on low confidence, whose
\* fallback engine is called and succeeds
C18_Witness ==
  /\ LlmCalled
  /\ ~llm_call.before.use_fallback_on_low_confidence
  /\ LlmPrimaryUnsuccessful
  /\ llm_call.fallback_calls = 1
  /\ llm_call.out = llm_call.fallback_out
  /\ llm_call.out.success

\* C20 as stated: extract never raises; when the primary or the fallback
\* engine raises and no engine's result is returned, an unsuccessful result
\* is.
C20_AsStated ==
  LlmCalled =>
    /\ ~llm_call.out.raised
    /\ (llm_call.out # llm_call.primary_out /\ llm_call.out # LastFallbackOutcome) =>
         ~llm_call.out.success

\* What C20 states, for the calls in which the fallback engine does not
\* raise.
C20_WhenFallbackReturns ==
  (LlmCalled /\ ~(llm_call.fallback_calls > 0 /\ LastFallbackOutcome.raised)) =>
     C20_AsStated

----------------------------------------------------------------------------
(* The engines on malformed responses                                      *)

\* The engine called directly has returned.
EngineCalled ==
  engine_call.engine # "none" /\ calls.llm_primary + calls.llm_fallback = 1

\* The chat call answered with a response of kind k.
Answered(kinds) == ~engine_call.chat.raised /\ engine_call.chat.response.kind \in kinds

\* What the claim asks of the result for a malformed response
FailedWithRaw ==
  /\ ~llm_result.raised
  /\ ~llm_result.success
  /\ llm_result.raw_response = engine_call.chat.response
  /\ llm_result.error # NoExc

\* C19 as stated: for a response that holds no JSON object, does not decode
\* or decodes to an unexpected shape, the engine returns a result with
\* success=False, the response as raw_response and an error message, and
\* raises nothing.
C19_AsStated ==
  (EngineCalled /\ Answered({"empty", "text", "broken", "no_fields", "fields_list",
                             "bad_confidence"})) => FailedWithRaw

\* What C19 states, for the responses without a JSON object and those that
\* do not decode; and for every response, no exception leaves the engine.
C19_NoJsonOrUndecodable ==
  EngineCalled =>
    /\ ~llm_result.raised
    /\ Answered({"empty", "text", "broken"}) => FailedWithRaw

----------------------------------------------------------------------------
(* post_process                                                            *)

\* post_process has been called on its own result.
PostProcessedTwice == post_call.n = 2

\* C21 as stated: for every template and every field mapping f on which
\* post_process returns, post_process(post_process(f)) = post_process(f).
C21_AsStated ==
  PostProcessedTwice =>
    /\ ~post_call.again.raised
    /\ post_call.again.fields = post_call.once.fields

\* The templates whose post_process is not idempotent on the mappings drawn
NotIdempotent == {"CertificateTemplate", "IDDocumentTemplate"}

\* What C21 states, for the templates other than the certificate and the
\* generic ID template.
C21_OtherTemplates ==
  (PostProcessedTwice /\ templates[post_call.template].name \notin NotIdempotent) =>
     C21_AsStated


-----------------------------------------------------------------------------
(* Overall confidence (C22)                                                *)

\* The sum of conf over keys (tenths)
RECURSIVE Total(_, _)
Total(conf, keys) ==
  IF keys = {} THEN 0
  ELSE LET k == CHOOSE x \in keys : TRUE IN conf[k] + Total(conf, keys \ {k})

\* The fields of the response whose post-processed value is not null
Valued(response) ==
  {k \in DOMAIN response.field_confidences : Get(response.extracted_data, k) # Null}

\* The arithmetic mean of the confidences of the valued fields of the
\* response, 0.0 when there is none
ValuedMean(response) ==
  IF Valued(response) = {} THEN Zero
  ELSE [num |-> Total(response.field_confidences, Valued(response)),
        den |-> 10 * Cardinality(Valued(response))]

\* OCR was used and its confidence is below 0.7
OcrUnreliable == ocr_result.present /\ 10 * ocr_result.confidence.num < 7 * ocr_result.confidence.den

\* C22: the overall confidence of a response built from an LLM result is
\* the mean of the confidences of the fields whose post-processed value is
\* not null (0.0 when there is none), multiplied by the OCR confidence
\* exactly when OCR was used and its confidence is below 0.7, and not
\* discounted otherwise.
C22_OverallConfidence ==
  (Done /\ result.success) =>
    LET overall == result.response.overall_confidence
        mean == ValuedMean(result.response)
    IN  IF OcrUnreliable
        THEN overall.num * mean.den * ocr_result.confidence.den
               = mean.num * ocr_result.confidence.num * overall.den
        ELSE overall.num * mean.den = mean.num * overall.den

\* Responses with a mean above 0 over some but not all fields: one
\* discounted
C22_Witness ==
  /\ Done /\ result.success
  /\ Valued(result.response) # {}
  /\ Valued(result.response) # DOMAIN result.response.field_confidences
  /\ result.response.overall_confidence.num > 0
  /\ OcrUnreliable

\* One built with the OCR confidence at the threshold, so not discounted
C22_WitnessAtThreshold ==
  /\ Done /\ result.success
  /\ result.response.overall_confidence.num > 0
  /\ ocr_result.present /\ FracEQ(ocr_result.confidence, Tenths(ocr_discount_below))

-----------------------------------------------------------------------------
(* Engine handles of the pipelines (C23)                                   *)

\* The handles and flags of pipeline q are those of pipeline p: primary and
\* fallback name the fields that hold the engines.
SamePrimary(p, q, primary) ==
  q[primary] = p[primary] /\ q.primary_initialized

SameFallback(p, q, fallback) ==
  q[fallback] = p[fallback] /\ q.fallback_initialized

\* C23: over any sequence of calls on one OCRPipeline and on one
\* LLMPipeline, no engine is constructed before a call needs it; once the
\* primary or the fallback engine of a pipeline is initialized, no later
\* call changes its handle; and a fallback whose construction failed stays
\* unavailable: no later call constructs it.
C23_EnginesConstructedOnce ==
  [][ /\ ocr_pipeline.primary_initialized
        => SamePrimary(ocr_pipeline, ocr_pipeline', "primary_engine")
      /\ ocr_pipeline.fallback_initialized
        => /\ SameFallback(ocr_pipeline, ocr_pipeline', "fallback_engine")
           /\ ocr_pipeline'.fallback_available = ocr_pipeline.fallback_available
      /\ llm_pipeline.primary_initialized
        => SamePrimary(llm_pipeline, llm_pipeline', "primary")
      /\ llm_pipeline.fallback_initialized
        => SameFallback(llm_pipeline, llm_pipeline', "fallback")
      /\ ocr_call.n = 0
        => ~ocr_pipeline.primary_engine /\ ~ocr_pipeline.fallback_engine
      /\ llm_call.n = 0
        => ~llm_pipeline.primary /\ ~llm_pipeline.fallback ]_vars

\* The OCR pipeline was called again after the construction of its
\* fallback engine had failed, with a primary engine that raised, so that
\* the call asked for the fallback.
C23_Witness ==
  /\ ocr_call.n >= 2
  /\ ocr_call.before.fallback_initialized /\ ~ocr_call.before.fallback_engine
  /\ ~ocr_call.before.fallback_available
  /\ ocr_call.primary_out.raised
  /\ ocr_call.fallback_calls = 0

\* The same of the LLM pipeline
C23_WitnessLlm ==
  /\ llm_call.n >= 2
  /\ llm_call.before.fallback_initialized /\ ~llm_call.before.fallback
  /\ llm_call.primary_out.raised
  /\ llm_call.fallback_calls = 0

-----------------------------------------------------------------------------
(* When and how process_file runs OCR (C24)                                *)

\* The texts, each followed by a blank line but the last
RECURSIVE Concatenated(_)
Concatenated(texts) ==
  IF Len(texts) = 0 THEN << >>
  ELSE IF Len(texts) = 1 THEN texts[1]
  ELSE texts[1] \o << "\n", "\n" >> \o Concatenated(Tail(texts))

\* The text is absent or, stripped, shorter than the minimum length
TextTooShort(txt) ==
  LET inner == {i \in 1..Len(txt) : txt[i] \notin {" ", "\t", "\n", "\r"}}
  IN  \/ inner = {}
      \/ \E lo \in inner, hi \in inner :
           /\ \A i \in inner : lo <= i /\ i <= hi
           /\ hi - lo + 1 < 100

\* The number of calls made on the image enhancer and the OCR engines
OcrWork(c) == << c.enhancer, c.ocr_primary, c.ocr_fallback >>

\* C24: process_file turns to OCR exactly when the extracted text is absent
\* or shorter than 100 characters after stripping and there is at least one
\* image; the enhancer and the OCR engines are called in no other part of
\* the call; OCR takes the images one at a time, each read once by the
\* pipeline, its text added after those of the images before it; and when
\* all are read the document text is their texts joined in that order
\* (a blank line between two) and the OCR confidence the mean of their
\* confidences.
C24_OcrWhenNeeded ==
  [][ /\ (pc = "extract" /\ pc' \in {"ocr", "classify"})
        => (pc' = "ocr" <=> (images' > 0 /\ TextTooShort(text')))
      /\ OcrWork(calls') # OcrWork(calls)
        => /\ pc = "ocr" /\ ocr_acc.done < images
           /\ calls'.enhancer = calls.enhancer + 1
           /\ calls'.ocr_primary <= calls.ocr_primary + 1
           /\ calls'.ocr_fallback <= calls.ocr_fallback + 1
      /\ (pc = "ocr" /\ pc' = "ocr" /\ ocr_acc' # ocr_acc)
        => /\ ocr_acc'.done = ocr_acc.done + 1
           /\ Len(ocr_acc'.all_text) = ocr_acc'.done
           /\ SubSeq(ocr_acc'.all_text, 1, ocr_acc.done) = ocr_acc.all_text
           /\ calls'.ocr_primary = calls.ocr_primary + 1
           /\ calls'.enhancer = ocr_acc'.done
      /\ (pc = "ocr" /\ pc' = "classify")
        => /\ ocr_acc.done = images
           /\ calls.enhancer = images /\ calls.ocr_primary = images
           /\ ocr_result'.present
           /\ text' = Concatenated(ocr_acc.all_text)
           /\ ocr_result'.full_text = text'
           /\ ocr_result'.confidence.num * ocr_acc.total_confidence.den * images
                = ocr_acc.total_confidence.num * ocr_result'.confidence.den
      /\ (pc = "extract" /\ pc' = "classify")
        => ~ocr_result'.present /\ OcrWork(calls') = << 0, 0, 0 >> ]_vars

\* OCR has read two images, one by the fallback engine, and the document
\* text is the two texts it read.
C24_Witness ==
  /\ pc = "classify" /\ ocr_result.present
  /\ images = 2
  /\ calls.ocr_primary = 2 /\ calls.ocr_fallback = 1
  /\ text = ocr_result.full_text
  /\ text \in {TextRtoGpa \o << "\n", "\n" >> \o TextUanPassport,
               TextUanPassport \o << "\n", "\n" >> \o TextRtoGpa}

\* A document with images whose text is long enough has gone on without OCR.
C24_WitnessNoOcr ==
  /\ pc = "classify" /\ ~ocr_result.present
  /\ images > 0 /\ Len(text) >= 100
  /\ OcrWork(calls) = << 0, 0, 0 >>

-----------------------------------------------------------------------------
(* The fields of a parsed response (C25)                                   *)

\* The field names the engine was asked for
ExpectedFields == field_names(EngineTemplate)

\* The "fields" object of the response the chat call answered with
Answer_fields == engine_call.chat.response.fields

\* What the claim asks of the field the result holds for entry e
ParsedAs(field, e) ==
  /\ field.value = e.value
  /\ field.confidence = IF e.object /\ e.has_confidence THEN e.confidence ELSE 5

\* C25 as stated: of a decoded response, every expected key is in the
\* result's fields, a nested object with its value and confidence, a bare
\* scalar with the confidence 0.5; the keys that are not expected are not
\* among the result's fields; and an expected field the response lacks is
\* absent from them.
C25_AsStated ==
  (EngineCalled /\ Answered({"json"})) =>
    /\ llm_result.success
    /\ \A k \in DOMAIN llm_result.fields :
         k \in ExpectedFields /\ k \in DOMAIN Answer_fields
    /\ \A k \in DOMAIN Answer_fields \cap ExpectedFields :
         /\ k \in DOMAIN llm_result.fields
         /\ ParsedAs(llm_result.fields[k], Answer_fields[k])

\* What C25 states with the keys that are not expected kept as the others
\* are: the result's fields are the keys of the response, no more and no
\* fewer, each parsed as the claim says.
C25_EveryKeyKept ==
  (EngineCalled /\ Answered({"json"})) =>
    /\ llm_result.success
    /\ DOMAIN llm_result.fields = DOMAIN Answer_fields
    /\ \A k \in DOMAIN Answer_fields : ParsedAs(llm_result.fields[k], Answer_fields[k])

-----------------------------------------------------------------------------
(* validate (C26)                                                          *)

\* validate was called directly and has returned.
Validated == validate_call.template # 0 /\ validate_call.called

\* The value of the field is missing, null or empty
Lacks(fields, name) ==
  name \notin DOMAIN fields \/ fields[name] = Null \/ fields[name] = Str(<< >>)

\* The text is a number once its thousands separators are removed: blanks
\* around an optional sign and digits with at most one point
IsNumberText(str) ==
  LET plain == SelectSeq(str, LAMBDA ch : ch # ",")
      solid == SelectSeq(plain, LAMBDA ch : ch # " ")
      digits == SelectSeq(solid, LAMBDA ch : ch \in {"0","1","2","3","4","5","6","7","8","9"})
      points == SelectSeq(solid, LAMBDA ch : ch = ".")
      signs == SelectSeq(solid, LAMBDA ch : ch \in {"+", "-"})
      first == CHOOSE i \in 1..Len(plain) : plain[i] # " " /\ \A j \in 1..(i - 1) : plain[j] = " "
      last == CHOOSE i \in 1..Len(plain) : plain[i] # " " /\ \A j \in (i + 1)..Len(plain) : plain[j] = " "
  IN  /\ Len(digits) >= 1
      /\ Len(points) <= 1
      /\ Len(digits) + Len(points) + Len(signs) = Len(solid)
      /\ Len(signs) <= 1
      /\ Len(signs) = 1 => plain[first] \in {"+", "-"}
      /\ last - first + 1 = Len(solid)

\* The errors the claim asks for: one for a required field that is lacking,
\* one for a numeric field whose value is there and is no number
ExpectedErrors(T, fields) ==
  {Message("Required field '{}' is missing", << T.field_definitions[i].display_name >>) :
     i \in {j \in 1..Len(T.field_definitions) :
              T.field_definitions[j].required
                /\ Lacks(fields, T.field_definitions[j].name)}}
  \cup
  {Message("Field '{}' should be a number", << T.field_definitions[i].display_name >>) :
     i \in {j \in 1..Len(T.field_definitions) :
              /\ T.field_definitions[j].field_type = "number"
              /\ ~Lacks(fields, T.field_definitions[j].name)
              /\ ~IsNumberText(fields[T.field_definitions[j].name].s)}}

\* C26: validate returns one error for each declared required field whose
\* value is missing, null or empty, one for each declared numeric field
\* whose non-empty value is no number once the thousands separators are
\* removed, and no other error: none for a field the template does not
\* declare; and it leaves the fields as they were.
C26_ValidateStructural ==
  Validated =>
    LET T == templates[validate_call.template]
        errors == validate_call.errors
    IN  /\ {errors[i] : i \in 1..Len(errors)} = ExpectedErrors(T, validate_call.fields)
        /\ Len(errors) = Cardinality(ExpectedErrors(T, validate_call.fields))
        /\ validate_call.after = validate_call.fields

\* validate has returned errors for required fields, and none for the
\* field the template does not declare.
C26_Witness ==
  /\ Validated
  /\ "notes" \in DOMAIN validate_call.fields
  /\ validate_call.errors # << >>
  /\ \A i \in 1..Len(validate_call.errors) :
       validate_call.errors[i].fmt = "Required field '{}' is missing"

\* validate has returned no error for a numeric field written with a
\* thousands separator.
C26_WitnessSeparator ==
  /\ Validated
  /\ validate_call.errors = << >>
  /\ \E i \in 1..Len(templates[validate_call.template].field_definitions) :
       /\ templates[validate_call.template].field_definitions[i].field_type = "number"
       /\ Get(validate_call.fields,
              templates[validate_call.template].field_definitions[i].name)
            = Str(<<"1", ",", "5">>)

\* validate has returned an error for a numeric field that holds no number.
C26_WitnessNotANumber ==
  /\ Validated
  /\ \E i \in 1..Len(validate_call.errors) :
       validate_call.errors[i].fmt = "Field '{}' should be a number"

-----------------------------------------------------------------------------
(* The classify score (C27)                                                *)

\* The keyword occurs in the text, letter case apart
OccursIn(keyword, txt) ==
  \E i \in 0..(Len(txt) - Len(keyword)) :
    \A j \in 1..Len(keyword) : LowerChar(txt[i + j]) = LowerChar(keyword[j])

\* The number of keywords of T that occur in the text, letter case apart
Occurring(T, txt) ==
  Cardinality({i \in 1..Len(T.classification_keywords) :
                 OccursIn(T.classification_keywords[i], txt)})

\* The templates scored the text: _classify_document went through its loop.
Scored == pc = "llm" /\ calls.classify = Len(templates)

\* C27 as stated: the score of every registered template on the text is the
\* number of its keywords that occur in the text, letter case apart, over
\* the number of its keywords, and at most 1.0.
C27_AsStated ==
  Scored =>
    \A i \in 1..Len(templates) :
      LET n == Len(templates[i].classification_keywords)
          k == Occurring(templates[i], text)
      IN  /\ ScoreOf(i).num * n = k * ScoreOf(i).den
          /\ ScoreOf(i).num <= ScoreOf(i).den

\* The keywords of T are written in lower case.
LowerCaseKeywords(T) ==
  \A i \in 1..Len(T.classification_keywords) :
    \A j \in 1..Len(T.classification_keywords[i]) :
      LowerChar(T.classification_keywords[i][j]) = T.classification_keywords[i][j]

\* What C27 states, for the templates whose keywords are all written in
\* lower case.
C27_LowerCaseKeywords ==
  Scored =>
    \A i \in {j \in 1..Len(templates) : LowerCaseKeywords(templates[j])} :
      LET n == Len(templates[i].classification_keywords)
          k == Occurring(templates[i], text)
      IN  /\ ScoreOf(i).num * n = k * ScoreOf(i).den
          /\ ScoreOf(i).num <= ScoreOf(i).den

-----------------------------------------------------------------------------
(* Status, review flag and errors of a response (C28)                      *)

\* C28: in every response process_file returns, requires_review is true
\* exactly when the status is requires_review; the error list is empty
\* exactly when the status is completed; and a completed response comes
\* from a successful LLM result, fields for which validation has no error,
\* and an overall confidence of the threshold or more.
C28_StatusConsistent ==
  Done =>
    LET response == result.response
    IN  /\ response.requires_review <=> response.status = "requires_review"
        /\ response.errors = << >> <=> response.status = "completed"
        /\ response.status = "completed" =>
             /\ llm_result.success
             /\ ExpectedErrors(templates[template], response.extracted_data) = {}
             /\ 10 * response.overall_confidence.num
                  >= confidence_threshold * response.overall_confidence.den

\* A completed response
C28_Witness ==
  /\ Done
  /\ result.response.status = "completed"
  /\ result.response.errors = << >>
  /\ ~result.response.requires_review

\* A response to review
C28_WitnessReview ==
  /\ Done
  /\ result.response.status = "requires_review"
  /\ result.response.requires_review

\* A failed response although the LLM result was successful: an exception
\* left _build_response.
C28_WitnessFailed ==
  /\ Done
  /\ result.response.status = "failed"
  /\ llm_result.success

-----------------------------------------------------------------------------
(* Engine calls within one pipeline call (C29)                             *)

\* C29 as stated: in a call of OCRPipeline.process and in a call of
\* LLMPipeline.extract the primary engine is called once and the fallback
\* engine once at most, whatever the engines return or raise.
C29_AsStated ==
  /\ OcrCalled => ocr_call.primary_calls = 1 /\ ocr_call.fallback_calls <= 1
  /\ LlmCalled => llm_call.primary_calls = 1 /\ llm_call.fallback_calls <= 1

\* What C29 states, for the calls of process whose primary engine could be
\* constructed and the calls of extract whose first call of the fallback
\* engine, if there was one, returned.
C29_WhenFallbackReturns ==
  /\ (OcrCalled /\ ocr_call.after.primary_initialized)
       => ocr_call.primary_calls = 1 /\ ocr_call.fallback_calls <= 1
  /\ (LlmCalled /\ ~(llm_call.fallback_calls > 0 /\ llm_call.fallback_out.raised))
       => llm_call.primary_calls = 1 /\ llm_call.fallback_calls <= 1

-----------------------------------------------------------------------------
(* Classification of a text that matches no keyword (C30)                  *)

\* process_file has classified the document and has not failed since.
Classified == pc \in {"llm", "build"} \/ (Done /\ result.success)

\* No hint was given, or the hint is the category of no registered template.
NoHintMatch ==
  \/ args.document_type_hint = "none"
  \/ \A i \in 1..Len(templates) : templates[i].category # args.document_type_hint

\* Every registered template scores 0 on the text.
AllScoresZero == \A i \in 1..Len(templates) : ScoreOf(i).num = 0

\* C30: classification yields a registered template; without a hint that
\* matches a template, and with every template scoring 0 on the text, it
\* yields the first registered template: the LLM is called for that template
\* and the response reports its category.
C30_ZeroScoresFirstTemplate ==
  Classified =>
    /\ template \in 1..Len(templates)
    /\ (NoHintMatch /\ AllScoresZero) =>
         /\ template = 1
         /\ pc = "build" => calls.llm_primary = 1
         /\ Done =>
              /\ calls.llm_primary = 1
              /\ result.response.document_type = templates[1].category

\* A response for a text that matches no keyword, given with a hint that is
\* no template's category
C30_Witness ==
  /\ Done /\ result.success
  /\ args.document_type_hint = "unknown"
  /\ AllScoresZero
  /\ template = 1
  /\ result.response.document_type = "id_document"
  /\ result.response.status # "failed"
====
